---- MODULE Spec2Model ----
(***************************************************************************)
(* State-machine model of the AWS Bedrock provider of Shannon              *)
(* (src/src/ai/bedrock-provider.js).  The conversation driver is the async *)
(* generator bedrockQuery: every yield is a notification handed to the     *)
(* caller, every await of bedrockClient.send is a backend round trip.      *)
(*                                                                         *)
(* Conventions for JavaScript values:                                      *)
(*   - Absent stands for a property that is undefined / not given;         *)
(*   - a falsy options.maxTurns (undefined or 0) is the number 0;          *)
(*   - total_cost_usd is kept in millionths of a dollar, so that           *)
(*     (totalTokens / 1000000) * 3.0 is the integer totalTokens * 3;       *)
(*   - duration_ms (wall clock) and console output are left out: no        *)
(*     control flow depends on them.                                       *)
(***************************************************************************)
EXTENDS Integers, Sequences, FiniteSets, TLC

\* ------------------------------------------------------------------ bounds
\* Largest explicit options.maxTurns the caller passes.
MaxCap == 3
\* Largest number of backend requests a run of the model issues; it only cuts
\* the runs whose turn cap is larger (the default cap of 100).
MaxRequests == 3

\* ------------------------------------------------------- program constants
DefaultMaxTurns == 100
TokensPerBlock == 4
PricePerMillionTokens == 3

Absent == "<absent>"
DefaultBedrockModel == "us.anthropic.claude-sonnet-4-20250514-v1:0"
TerminalStopReasons == {"end_turn", "stop_sequence"}

\* JavaScript truthiness of a string-valued property.
Truthy(s) == s # Absent /\ s # ""

\* ----------------------------------------------------------- wire content
\* A Bedrock content block: the fields the provider looks at.  `other` names a
\* payload of another kind (image, toolResult, reasoningContent, ...).
WireBlock(text, toolUse, other) == [text |-> text, toolUse |-> toolUse, other |-> other]
TextBlock(s) == WireBlock(s, Absent, Absent)
ToolUseBlock(id) == WireBlock(Absent, id, Absent)
OtherBlock(kind) == WireBlock(Absent, Absent, kind)

\* response.output.message of a Converse reply (defined = FALSE: the reply has
\* no output.message).  A missing content array is the empty sequence: both
\* `if (bedrockMessage.content)` and `content || []` treat the two alike.
\* A usage object {inputTokens, outputTokens} (defined = FALSE: there is none).
Usage(input, output) == [defined |-> TRUE, inputTokens |-> input, outputTokens |-> output]
NoUsage == [defined |-> FALSE, inputTokens |-> 0, outputTokens |-> 0]

WireMessageWithUsage(content, stopReason, usage) ==
  [defined |-> TRUE, content |-> content, stopReason |-> stopReason, usage |-> usage]
WireMessage(content, stopReason) == WireMessageWithUsage(content, stopReason, NoUsage)
NoMessage ==
  [defined |-> FALSE, content |-> <<>>, stopReason |-> Absent, usage |-> NoUsage]

\* What bedrockClient.send resolves with (defined = FALSE: it resolves with
\* undefined).  A Converse reply carries stopReason and usage beside output,
\* and output.message holds the role and the content.
Reply(stopReason, content) ==
  [defined |-> TRUE, stopReason |-> stopReason, usage |-> Usage(10, 5),
   message |-> WireMessage(content, Absent)]
ReplyWithoutMessage(stopReason) ==
  [defined |-> TRUE, stopReason |-> stopReason, usage |-> Usage(10, 5),
   message |-> NoMessage]
UndefinedResponse ==
  [defined |-> FALSE, stopReason |-> Absent, usage |-> NoUsage, message |-> NoMessage]
NoResponse == UndefinedResponse

StopReasons ==
  {"end_turn", "stop_sequence", "tool_use", "max_tokens", "content_filtered", Absent}

\* The replies the backend may give on a turn.
Responses ==
  {Reply(s, <<TextBlock("hello")>>) : s \in StopReasons}
    \cup {Reply("tool_use", <<TextBlock("calling"), ToolUseBlock("tool-1")>>),
          Reply("tool_use", <<OtherBlock("reasoningContent")>>),
          Reply("end_turn", <<>>),
          [defined |-> TRUE, stopReason |-> "max_tokens", usage |-> Usage(7, 3),
           message |-> WireMessageWithUsage(<<TextBlock("cut")>>, "max_tokens",
                                            Usage(7, 3))]}
    \cup {ReplyWithoutMessage(s) : s \in {"end_turn", "tool_use"}}
    \cup {UndefinedResponse}

\* The messages of the errors bedrockClient.send rejects with (Error objects).
SendErrors == {"ThrottlingException: Too many requests", "AccessDeniedException"}

\* The caller's arguments and the environment of a run.
Prompts == {"Say hello"}
OptionSets ==
  {[model |-> m, maxTurns |-> t, permissionMode |-> p]
     : m \in {"claude-3-haiku-20240307"}, t \in 0..MaxCap,
       p \in {Absent, "bypassPermissions"}}
    \cup {[model |-> Absent, maxTurns |-> t, permissionMode |-> Absent] : t \in 1..MaxCap}
EnvModelIds == {Absent, "eu.anthropic.claude-custom-v1:0"}

VARIABLES
  prompt,               \* argument: params.prompt
  options,              \* argument: params.options
  envModelId,           \* process.env.BEDROCK_MODEL_ID
  pc,                   \* where the generator body is suspended
  modelId,              \* local const modelId   ("" before the body starts)
  maxTurns,             \* local const maxTurns  (0 before the body starts)
  turnCount,            \* local let turnCount
  conversationHistory,  \* local let conversationHistory
  response,             \* local const response of the current turn
  notifications,        \* every value the generator has yielded, in order
  nextPending,          \* the caller has called next() and awaits its result
  callerSeen,           \* how many notifications the caller has received
  sent,                 \* every request handed to bedrockClient.send, in order
  roundTrips            \* the outcome of every finished round trip, in order

\* The message transcoder (transformMessageToBedrock, transformBedrockMessage)
\* applied on its own.
VARIABLES
  codecPc,              \* which transform has been applied
  sdkMessage,           \* the Anthropic-format message given to the encoder
  wire,                 \* a Bedrock-format message (encoded, or received)
  decoded               \* the content transformBedrockMessage returns for wire

\* The streaming path of the client (handleStreamingResponse).
VARIABLES
  streamPc,             \* where handleStreamingResponse / start() stands
  streamModel,          \* parameter modelId
  source,               \* the events response.body has delivered, in order
  emitted,              \* every chunk given to controller.enqueue, in order
  queue,                \* the ReadableStream's queue of unread chunks
  streamState,          \* the ReadableStream's state
  closeRequested,       \* controller.close() was called on a non-empty queue
  storedError,          \* the error the stream was errored with
  received,             \* the chunks the consumer has read, in order
  readPending,          \* a read() of the consumer waits for a chunk
  consumerEnd           \* how the consumer saw the stream end

\* The cost estimate at the end of bedrockQuery, applied on its own.
VARIABLES
  costHistory,          \* the transcript given to the estimator
  costEstimate          \* the estimate computed for costHistory

\* A second run of the same query function, going on beside the first.
VARIABLES
  peer                  \* the locals of the second call of bedrockQuery

\* The functions that read the environment (isBedrockEnabled,
\* getBedrockModelId, validateBedrockConfig, createBedrockQueryFunction).
VARIABLES
  processEnv,           \* process.env: the variables the provider reads
  envPc,                \* whether one of the functions has been called
  envCall,              \* the function called and its argument
  envOutcome            \* what the call returned or threw

\* The fetch replacement of the client (bedrockFetch and the non-streaming
\* path).
VARIABLES
  fetchPc,              \* where the call of bedrockFetch stands
  fetchModel,           \* parameter modelId
  fetchInit,            \* parameter init: what init.body holds
  fetchCommand,         \* the command given to bedrockClient.send
  fetchResult           \* how the promise bedrockFetch returned has settled

driverVars ==
  <<prompt, options, envModelId, pc, modelId, maxTurns, turnCount,
    conversationHistory, response, notifications, nextPending, callerSeen,
    sent, roundTrips>>
codecVars == <<codecPc, sdkMessage, wire, decoded>>
streamVars ==
  <<streamPc, streamModel, source, emitted, queue, streamState, closeRequested,
    storedError, received, readPending, consumerEnd>>

costVars == <<costHistory, costEstimate>>
pairVars == <<peer>>
envVars == <<processEnv, envPc, envCall, envOutcome>>
fetchVars == <<fetchPc, fetchModel, fetchInit, fetchCommand, fetchResult>>

nonDriverVars == <<codecVars, streamVars, costVars, pairVars, envVars, fetchVars>>
nonCodecVars == <<driverVars, streamVars, costVars, pairVars, envVars, fetchVars>>
nonStreamVars == <<driverVars, codecVars, costVars, pairVars, envVars, fetchVars>>
nonCostVars == <<driverVars, codecVars, streamVars, pairVars, envVars, fetchVars>>
nonEnvVars == <<driverVars, codecVars, streamVars, costVars, pairVars, fetchVars>>
nonFetchVars == <<driverVars, codecVars, streamVars, costVars, pairVars, envVars>>

vars == <<driverVars, codecVars, streamVars, costVars, pairVars, envVars, fetchVars>>

\* ------------------------------------------------------- pure functions
\* modelMap is an object literal: modelMap[name] is the table's entry, the
\* member of Object.prototype of that name (a function or an object, truthy),
\* or undefined.
ObjectPrototypeNames ==
  {"constructor", "toString", "valueOf", "hasOwnProperty", "isPrototypeOf",
   "propertyIsEnumerable", "toLocaleString", "__proto__"}
ModelMap(name) ==
  CASE name = "claude-sonnet-4-5-20250929" -> "us.anthropic.claude-sonnet-4-20250514-v1:0"
    [] name = "claude-3-5-sonnet-20241022" -> "us.anthropic.claude-3-5-sonnet-20241022-v2:0"
    [] name = "claude-3-5-sonnet-20240620" -> "anthropic.claude-3-5-sonnet-20240620-v1:0"
    [] name = "claude-3-sonnet-20240229" -> "anthropic.claude-3-sonnet-20240229-v1:0"
    [] name = "claude-3-opus-20240229" -> "anthropic.claude-3-opus-20240229-v1:0"
    [] name = "claude-3-haiku-20240307" -> "anthropic.claude-3-haiku-20240307-v1:0"
    [] name \in ObjectPrototypeNames -> "[Object.prototype." \o name \o "]"
    [] OTHER -> Absent

getBedrockModelId(env, anthropicModel) ==
  IF Truthy(env) THEN env
  ELSE IF ModelMap(anthropicModel) # Absent THEN ModelMap(anthropicModel)
  ELSE DefaultBedrockModel

\* options.maxTurns || 100
ResolveMaxTurns(given) == IF given # 0 THEN given ELSE DefaultMaxTurns

\* options.permissionMode || 'default'
ResolvePermissionMode(given) == IF Truthy(given) THEN given ELSE "default"

\* The content loop of transformBedrockMessage: a block with a truthy text
\* gives a text block, a block with a toolUse gives a tool_use block, and a
\* block with neither gives nothing.
RECURSIVE DecodeContent(_)
DecodeContent(blocks) ==
  IF blocks = <<>> THEN <<>>
  ELSE LET block == Head(blocks)
       IN (IF Truthy(block.text) THEN <<[type |-> "text", text |-> block.text]>> ELSE <<>>)
            \o (IF block.toolUse # Absent
                  THEN <<[type |-> "tool_use", id |-> block.toolUse]>> ELSE <<>>)
            \o DecodeContent(Tail(blocks))

\* transformBedrockMessage(bedrockMessage, modelId), for a defined message.
\* The message id (the backend's, or one made from the clock) is left out.
transformBedrockMessage(bedrockMessage, mid) ==
  [type |-> "assistant",
   role |-> "assistant",
   content |-> DecodeContent(bedrockMessage.content),
   model |-> mid,
   stop_reason |-> bedrockMessage.stopReason,
   usage |-> [input_tokens |-> IF bedrockMessage.usage.defined
                                 THEN bedrockMessage.usage.inputTokens ELSE 0,
              output_tokens |-> IF bedrockMessage.usage.defined
                                  THEN bedrockMessage.usage.outputTokens ELSE 0]]

\* The TypeError of reading a property of undefined.
TypeErrorReading(property) ==
  "Cannot read properties of undefined (reading '" \o property \o "')"

InitNotification(mid, permissionMode) ==
  [type |-> "system", subtype |-> "init", model |-> mid,
   permissionMode |-> ResolvePermissionMode(permissionMode)]

\* (changed: the echo carries the wire form of the prompt)
UserNotification_WireForm(p) ==
  [type |-> "user", role |-> "user", content |-> <<[text |-> p]>>]

UserNotification(p) == [type |-> "user", role |-> "user", content |-> p]

\* (changed: the user message is pushed without a content block)
UserMessage_NoBlocks(p) == [role |-> "user", content |-> <<>>]

UserMessage(p) == [role |-> "user", content |-> <<TextBlock(p)>>]

AssistantMessage(resp) ==
  [role |-> "assistant",
   content |-> IF resp.defined /\ resp.message.defined THEN resp.message.content ELSE <<>>]

\* (changed: the error text is replaced by a fixed one)
ErrorResult_FixedText(message) ==
  [type |-> "result", success |-> FALSE, error |-> "Bedrock API error",
   subtype |-> "error_during_execution", total_cost_usd |-> 0]

ErrorResult(message) ==
  [type |-> "result", success |-> FALSE, error |-> message,
   subtype |-> "error_during_execution", total_cost_usd |-> 0]

RECURSIVE TotalTokens(_)
TotalTokens(history) ==
  IF history = <<>> THEN 0
  ELSE Len(Head(history).content) * TokensPerBlock + TotalTokens(Tail(history))

\* (changed: every message counts as one block)
EstimatedCost_PerMessage(history) ==
  Len(history) * TokensPerBlock * PricePerMillionTokens

\* Lines 357-360, in millionths of a dollar.
EstimatedCost(history) == TotalTokens(history) * PricePerMillionTokens

ResultSubtype(count, cap) == IF count >= cap THEN "error_max_turns" ELSE "success"

FinalResult(count, cap, history) ==
  [type |-> "result", success |-> TRUE, content |-> "Task completed via Bedrock",
   subtype |-> ResultSubtype(count, cap), total_cost_usd |-> EstimatedCost(history)]

\* ----------------------------------------------------------------- state
\* The parts of the program a specification does not run stay as they are
\* before use.
NoContent == [kind |-> "array", blocks |-> <<>>, value |-> Absent]
NoSdkMessage == [role |-> "user", content |-> NoContent]
NoWireMessage == [role |-> "user", content |-> <<>>]

DriverUnused ==
  /\ prompt = ""
  /\ options = [model |-> Absent, maxTurns |-> 0, permissionMode |-> Absent]
  /\ envModelId = Absent
  /\ pc = "unused"
  /\ modelId = ""
  /\ maxTurns = 0
  /\ turnCount = 0
  /\ conversationHistory = <<>>
  /\ response = NoResponse
  /\ notifications = <<>>
  /\ nextPending = FALSE
  /\ callerSeen = 0
  /\ sent = <<>>
  /\ roundTrips = <<>>

CodecUnused ==
  /\ codecPc = "unused"
  /\ sdkMessage = NoSdkMessage
  /\ wire = NoWireMessage
  /\ decoded = <<>>

StreamUnused ==
  /\ streamPc = "unused"
  /\ streamModel = ""
  /\ source = <<>>
  /\ emitted = <<>>
  /\ queue = <<>>
  /\ streamState = "readable"
  /\ closeRequested = FALSE
  /\ storedError = Absent
  /\ received = <<>>
  /\ readPending = FALSE
  /\ consumerEnd = "open"

CostUnused ==
  /\ costHistory = <<>>
  /\ costEstimate = 0

NoPeer ==
  [pc |-> "unused", prompt |-> "", modelId |-> "", maxTurns |-> 0, turnCount |-> 0,
   conversationHistory |-> <<>>, notifications |-> <<>>, roundTrips |-> <<>>]
PairUnused == peer = NoPeer

EnvNames ==
  {"USE_BEDROCK", "BEDROCK_ENABLED", "BEDROCK_API_KEY", "AWS_ACCESS_KEY_ID",
   "AWS_SECRET_ACCESS_KEY", "ANTHROPIC_API_KEY", "CLAUDE_CODE_OAUTH_TOKEN",
   "BEDROCK_MODEL_ID"}
NoCall == [fn |-> Absent, arg |-> Absent]
NoOutcome == [threw |-> FALSE, value |-> Absent, message |-> <<>>]
EnvUnused ==
  /\ processEnv = [n \in EnvNames |-> Absent]
  /\ envPc = "unused"
  /\ envCall = NoCall
  /\ envOutcome = NoOutcome

\* A call of bedrockQuery({prompt, options}): the generator object exists and
\* its body has not started.
DriverInit ==
  /\ prompt \in Prompts
  /\ options \in OptionSets
  /\ envModelId \in EnvModelIds
  /\ pc = "created"
  /\ modelId = ""
  /\ maxTurns = 0
  /\ turnCount = 0
  /\ conversationHistory = <<>>
  /\ response = NoResponse
  /\ notifications = <<>>
  /\ nextPending = FALSE
  /\ callerSeen = 0
  /\ sent = <<>>
  /\ roundTrips = <<>>

NoFetchInit ==
  [parses |-> FALSE, isObject |-> FALSE, stream |-> Absent, max_tokens |-> 0,
   system |-> Absent]
NoCommand == [kind |-> Absent, modelId |-> Absent, body |-> NoFetchInit]
NoFetchResult ==
  [settled |-> "pending", status |-> 0, body |-> [type |-> Absent], error |-> Absent]
FetchUnused ==
  /\ fetchPc = "unused"
  /\ fetchModel = ""
  /\ fetchInit = NoFetchInit
  /\ fetchCommand = NoCommand
  /\ fetchResult = NoFetchResult

Init ==
  /\ CodecUnused
  /\ StreamUnused
  /\ CostUnused
  /\ PairUnused
  /\ EnvUnused
  /\ FetchUnused
  /\ DriverInit

\* ------------------------------------------------------- generator steps
\* (changed: the body runs ahead of the caller)
Resumable_Eager == TRUE

\* An async generator body runs only while a next() call of the caller is
\* being served; at a yield it hands over one value and is suspended again.
Resumable == nextPending

\* yield value: the value settles the pending next() call.
Yield(value) ==
  /\ notifications' = Append(notifications, value)
  /\ nextPending' = FALSE

\* (changed: the try block ends right after the send)
InTryBlock_SendOnly(site) == site = "send"

\* Whether a statement lies inside the try block of the turn loop
\* (lines 286-337): the send (line 308) and the transform of the reply
\* (line 311) do.
InTryBlock(site) == site \in {"send", "transform"}

\* catch (error) { ... yield Result{success:false}; return; }
CatchError(message) ==
  /\ Yield(ErrorResult(message))
  /\ pc' = "yield_error_result"

\* An exception raised at `site`: caught by the loop's catch when the site is
\* inside the try block, otherwise it leaves the generator and rejects the
\* caller's next().
Raise(site, message) ==
  IF InTryBlock(site)
    THEN CatchError(message)
    ELSE /\ pc' = "threw"
         /\ nextPending' = FALSE
         /\ UNCHANGED notifications

\* Lines 356-373: the cost estimate and the final Result.
Finish(count, history) ==
  /\ Yield(FinalResult(count, maxTurns, history))
  /\ pc' = "yield_result"
  /\ UNCHANGED <<turnCount, sent>>

\* (changed: `while (turnCount <= maxTurns)`)
LoopHead_OneTurnMore(count, history) ==
  IF count <= maxTurns
    THEN /\ Len(sent) < MaxRequests
         /\ turnCount' = count + 1
         /\ sent' = Append(sent, [modelId |-> modelId, messages |-> history])
         /\ pc' = "await_send"
         /\ UNCHANGED <<notifications, nextPending>>
    ELSE Finish(count, history)

\* (changed: `while (turnCount < maxTurns - 1)`)
LoopHead_OneTurnLess(count, history) ==
  IF count < maxTurns - 1
    THEN /\ Len(sent) < MaxRequests
         /\ turnCount' = count + 1
         /\ sent' = Append(sent, [modelId |-> modelId, messages |-> history])
         /\ pc' = "await_send"
         /\ UNCHANGED <<notifications, nextPending>>
    ELSE Finish(count, history)

\* (changed: turnCount++ is missing)
LoopHead_NoIncrement(count, history) ==
  IF count < maxTurns
    THEN /\ Len(sent) < MaxRequests
         /\ turnCount' = count
         /\ sent' = Append(sent, [modelId |-> modelId, messages |-> history])
         /\ pc' = "await_send"
         /\ UNCHANGED <<notifications, nextPending>>
    ELSE Finish(count, history)

\* (changed: the counter goes up by two)
LoopHead_IncrementByTwo(count, history) ==
  IF count < maxTurns
    THEN /\ Len(sent) < MaxRequests
         /\ turnCount' = count + 2
         /\ sent' = Append(sent, [modelId |-> modelId, messages |-> history])
         /\ pc' = "await_send"
         /\ UNCHANGED <<notifications, nextPending>>
    ELSE Finish(count, history)

\* (changed: the request carries the prompt only)
LoopHead_PromptOnly(count, history) ==
  IF count < maxTurns
    THEN /\ Len(sent) < MaxRequests
         /\ turnCount' = count + 1
         /\ sent' = Append(sent, [modelId |-> modelId, messages |-> <<Head(history)>>])
         /\ pc' = "await_send"
         /\ UNCHANGED <<notifications, nextPending>>
    ELSE Finish(count, history)

\* Lines 283-308, one pass of `while (turnCount < maxTurns)` up to the await
\* of bedrockClient.send; the loop is left for the final Result otherwise.
LoopHead(count, history) ==
  IF count < maxTurns
    THEN /\ Len(sent) < MaxRequests
         /\ turnCount' = count + 1
         /\ sent' = Append(sent, [modelId |-> modelId, messages |-> history])
         /\ pc' = "await_send"
         /\ UNCHANGED <<notifications, nextPending>>
    ELSE Finish(count, history)

\* (changed: stop_sequence is not checked)
StopsNaturally_EndTurnOnly(resp) == resp.stopReason = "end_turn"

\* (changed: max_tokens ends the conversation as well)
StopsNaturally_MaxTokensToo(resp) ==
  resp.stopReason \in TerminalStopReasons \cup {"max_tokens"}

\* Whether a reply ends the conversation (line 321).
StopsNaturally(resp) == resp.stopReason \in TerminalStopReasons

\* The caller calls next() (one step of `for await`): it has taken every
\* value yielded so far and the sequence has not ended.
CallerNext ==
  /\ ~nextPending
  /\ pc \notin {"done", "threw"}
  /\ callerSeen = Len(notifications)
  /\ nextPending' = TRUE
  /\ UNCHANGED <<prompt, options, envModelId, pc, modelId, maxTurns, turnCount,
                 conversationHistory, response, notifications, callerSeen, sent,
                 roundTrips>>
  /\ UNCHANGED nonDriverVars

\* The caller receives the value its next() call was settled with.
CallerTake ==
  /\ ~nextPending
  /\ callerSeen < Len(notifications)
  /\ callerSeen' = callerSeen + 1
  /\ UNCHANGED <<prompt, options, envModelId, pc, modelId, maxTurns, turnCount,
                 conversationHistory, response, notifications, nextPending, sent,
                 roundTrips>>
  /\ UNCHANGED nonDriverVars

\* Lines 252-265: the locals are bound and Init is yielded.
StartBody ==
  /\ Resumable
  /\ pc = "created"
  /\ modelId' = getBedrockModelId(envModelId, options.model)
  /\ maxTurns' = ResolveMaxTurns(options.maxTurns)
  /\ turnCount' = 0
  /\ conversationHistory' = <<>>
  /\ Yield(InitNotification(modelId', options.permissionMode))
  /\ pc' = "yield_init"
  /\ UNCHANGED <<prompt, options, envModelId, response, callerSeen, sent, roundTrips>>
  /\ UNCHANGED nonDriverVars

\* Lines 267-274: the user echo is yielded.
ResumeAfterInit ==
  /\ Resumable
  /\ pc = "yield_init"
  /\ Yield(UserNotification(prompt))
  /\ pc' = "yield_user"
  /\ UNCHANGED <<prompt, options, envModelId, modelId, maxTurns, turnCount,
                 conversationHistory, response, callerSeen, sent, roundTrips>>
  /\ UNCHANGED nonDriverVars

\* Lines 276-308: the prompt is pushed on the history and the loop is entered.
ResumeAfterUser ==
  /\ Resumable
  /\ pc = "yield_user"
  /\ conversationHistory' = Append(conversationHistory, UserMessage(prompt))
  /\ LoopHead(turnCount, conversationHistory')
  /\ UNCHANGED <<prompt, options, envModelId, modelId, maxTurns, response,
                 callerSeen, roundTrips>>
  /\ UNCHANGED nonDriverVars

\* (changed: the reply is pushed on the history before it is transformed)
BackendResolve_PushFirst ==
  /\ pc = "await_send"
  /\ \E r \in Responses :
       /\ response' = r
       /\ roundTrips' = Append(roundTrips, [kind |-> "resolve", response |-> r])
       /\ IF ~r.defined
            THEN /\ Raise("transform", TypeErrorReading("output"))
                 /\ UNCHANGED conversationHistory
            ELSE IF ~r.message.defined
              THEN /\ Raise("transform", TypeErrorReading("content"))
                   /\ conversationHistory' =
                        Append(conversationHistory, AssistantMessage(r))
              ELSE /\ Yield(transformBedrockMessage(r.message, modelId))
                   /\ pc' = "yield_assistant"
                   /\ UNCHANGED conversationHistory
  /\ UNCHANGED <<prompt, options, envModelId, modelId, maxTurns, turnCount,
                 callerSeen, sent>>
  /\ UNCHANGED nonDriverVars

\* Lines 308-312: bedrockClient.send resolves; the reply is transformed and
\* the assistant message is yielded.  Reading response.output of an undefined
\* response, or bedrockMessage.content of an undefined message, raises.
BackendResolve ==
  /\ pc = "await_send"
  /\ \E r \in Responses :
       /\ response' = r
       /\ roundTrips' = Append(roundTrips, [kind |-> "resolve", response |-> r])
       /\ IF ~r.defined
            THEN Raise("transform", TypeErrorReading("output"))
            ELSE IF ~r.message.defined
              THEN Raise("transform", TypeErrorReading("content"))
              ELSE /\ Yield(transformBedrockMessage(r.message, modelId))
                   /\ pc' = "yield_assistant"
  /\ UNCHANGED <<prompt, options, envModelId, modelId, maxTurns, turnCount,
                 conversationHistory, callerSeen, sent>>
  /\ UNCHANGED nonDriverVars

\* Line 308: bedrockClient.send rejects.
BackendReject ==
  /\ pc = "await_send"
  /\ \E message \in SendErrors :
       /\ roundTrips' = Append(roundTrips, [kind |-> "reject", message |-> message])
       /\ Raise("send", message)
  /\ UNCHANGED <<prompt, options, envModelId, modelId, maxTurns, turnCount,
                 conversationHistory, response, callerSeen, sent>>
  /\ UNCHANGED nonDriverVars

\* (changed: the reply is put in front of the history, unshift for push)
ResumeAfterAssistant_Unshift ==
  /\ Resumable
  /\ pc = "yield_assistant"
  /\ conversationHistory' = <<AssistantMessage(response)>> \o conversationHistory
  /\ IF StopsNaturally(response)
       THEN Finish(turnCount, conversationHistory')
       ELSE LoopHead(turnCount, conversationHistory')
  /\ UNCHANGED <<prompt, options, envModelId, modelId, maxTurns, response,
                 callerSeen, roundTrips>>
  /\ UNCHANGED nonDriverVars

\* (changed: only the prompt and the latest reply are kept)
ResumeAfterAssistant_KeepLatest ==
  /\ Resumable
  /\ pc = "yield_assistant"
  /\ conversationHistory' = <<Head(conversationHistory), AssistantMessage(response)>>
  /\ IF StopsNaturally(response)
       THEN Finish(turnCount, conversationHistory')
       ELSE LoopHead(turnCount, conversationHistory')
  /\ UNCHANGED <<prompt, options, envModelId, modelId, maxTurns, response,
                 callerSeen, roundTrips>>
  /\ UNCHANGED nonDriverVars

\* Lines 314-335 and the loop test: the reply is pushed on the history; a
\* natural stop breaks out of the loop, anything else goes round again.
ResumeAfterAssistant ==
  /\ Resumable
  /\ pc = "yield_assistant"
  /\ conversationHistory' = Append(conversationHistory, AssistantMessage(response))
  /\ IF StopsNaturally(response)
       THEN Finish(turnCount, conversationHistory')
       ELSE LoopHead(turnCount, conversationHistory')
  /\ UNCHANGED <<prompt, options, envModelId, modelId, maxTurns, response,
                 callerSeen, roundTrips>>
  /\ UNCHANGED nonDriverVars

\* (changed: the return is missing, the loop goes on)
ResumeAfterErrorResult_NoReturn ==
  /\ Resumable
  /\ pc = "yield_error_result"
  /\ LoopHead(turnCount, conversationHistory)
  /\ UNCHANGED <<prompt, options, envModelId, modelId, maxTurns,
                 conversationHistory, response, callerSeen, roundTrips>>
  /\ UNCHANGED nonDriverVars

\* Line 352: return after the error Result.
ResumeAfterErrorResult ==
  /\ Resumable
  /\ pc = "yield_error_result"
  /\ pc' = "done"
  /\ nextPending' = FALSE
  /\ UNCHANGED <<prompt, options, envModelId, modelId, maxTurns, turnCount,
                 conversationHistory, response, notifications, callerSeen, sent,
                 roundTrips>>
  /\ UNCHANGED nonDriverVars

\* Line 374: the body ends after the final Result.
ResumeAfterResult ==
  /\ Resumable
  /\ pc = "yield_result"
  /\ pc' = "done"
  /\ nextPending' = FALSE
  /\ UNCHANGED <<prompt, options, envModelId, modelId, maxTurns, turnCount,
                 conversationHistory, response, notifications, callerSeen, sent,
                 roundTrips>>
  /\ UNCHANGED nonDriverVars

Next ==
  \/ CallerNext
  \/ CallerTake
  \/ StartBody
  \/ ResumeAfterInit
  \/ ResumeAfterUser
  \/ BackendResolve
  \/ BackendReject
  \/ ResumeAfterAssistant
  \/ ResumeAfterErrorResult
  \/ ResumeAfterResult

Spec == Init /\ [][Next]_vars

\* The fairness the scheduling gives: the event loop runs every ready
\* continuation of the generator, every round trip returns or fails, and the
\* caller keeps pulling.
Fairness ==
  /\ WF_vars(CallerNext)
  /\ WF_vars(CallerTake)
  /\ WF_vars(StartBody)
  /\ WF_vars(ResumeAfterInit)
  /\ WF_vars(ResumeAfterUser)
  /\ WF_vars(BackendResolve \/ BackendReject)
  /\ WF_vars(ResumeAfterAssistant)
  /\ WF_vars(ResumeAfterErrorResult)
  /\ WF_vars(ResumeAfterResult)

LiveSpec == Spec /\ Fairness

\* ------------------------------------------------------------ properties
TypesOf(seq) == [i \in 1..Len(seq) |-> seq[i].type]
Repeat(x, n) == [i \in 1..n |-> x]
ShapeWith(assistants) == <<"system", "user">> \o Repeat("assistant", assistants) \o <<"result">>
LastOf(seq) == seq[Len(seq)]
ResultIndices == {i \in 1..Len(notifications) : notifications[i].type = "result"}
AssistantCount == Cardinality({i \in 1..Len(notifications) : notifications[i].type = "assistant"})
Exhausted == pc = "done"

\* A finished round trip that failed: the send was rejected, or the reply
\* could not be decoded (no reply object, or no output.message).
RoundTripFailed(rt) ==
  \/ rt.kind = "reject"
  \/ rt.kind = "resolve" /\ (~rt.response.defined \/ ~rt.response.message.defined)
RaisedMessage(rt) ==
  IF rt.kind = "reject" THEN rt.message
  ELSE IF ~rt.response.defined
    THEN "Cannot read properties of undefined (reading 'output')"
    ELSE "Cannot read properties of undefined (reading 'content')"
\* A finished round trip whose reply carries a natural stop.
RepliedNaturalStop(rt) ==
  /\ ~RoundTripFailed(rt)
  /\ rt.response.stopReason \in {"end_turn", "stop_sequence"}
LastRoundTripFailed == roundTrips # <<>> /\ RoundTripFailed(LastOf(roundTrips))
AllRepliesContinue ==
  \A i \in 1..Len(roundTrips) :
    ~RoundTripFailed(roundTrips[i]) /\ ~RepliedNaturalStop(roundTrips[i])

\* C1: a run pulled to exhaustion holds exactly one notification of type
\* 'result', and it is the last one; before that there is at most one Result
\* and nothing follows it.
C1_OneResultLast ==
  /\ \A i \in ResultIndices : i = Len(notifications)
  /\ Exhausted => Cardinality(ResultIndices) = 1

C1_Witness ==
  /\ Exhausted
  /\ Len(notifications) >= 5
  /\ LastOf(notifications).type = "result"

\* C2 (as claimed): the Result has subtype 'success' exactly when the run
\* ended on a reply with stop reason end_turn or stop_sequence, on whichever
\* turn; 'error_max_turns' only when the cap was reached without such a stop.
C2_SubtypeFollowsStopReason ==
  pc \in {"yield_result", "done"} /\ LastOf(notifications).success =>
    LET endedNaturally == roundTrips # <<>> /\ RepliedNaturalStop(LastOf(roundTrips))
        subtype == LastOf(notifications).subtype
    IN /\ (subtype = "success") <=> endedNaturally
       /\ (subtype = "error_max_turns") => (turnCount >= maxTurns /\ ~endedNaturally)

\* C3: when the round trip of turn k fails, the notifications are Init,
\* UserEcho, k-1 Assistant and one Result{success:false} with the raised
\* message, subtype 'error_during_execution' and cost 0, and the failing
\* request is the last one issued.
C3_FailureOnTurnK ==
  LastRoundTripFailed =>
    LET k == Len(roundTrips)
        result == LastOf(notifications)
    IN /\ TypesOf(notifications) = ShapeWith(k - 1)
       /\ result.success = FALSE
       /\ result.error = RaisedMessage(LastOf(roundTrips))
       /\ result.subtype = "error_during_execution"
       /\ result.total_cost_usd = 0
       /\ Len(sent) = k
       /\ pc \in {"yield_error_result", "done"}

C3_Witness ==
  /\ Exhausted
  /\ Len(roundTrips) = 3
  /\ LastOf(roundTrips).kind = "reject"
  /\ AssistantCount = 2

\* C4: when every reply asks to continue and no round trip fails, a run with
\* turn cap N ends with Init, UserEcho, N Assistant and Result{success:true,
\* subtype:'error_max_turns'} after exactly N requests.
C4_CapExhausted ==
  AllRepliesContinue =>
    /\ Len(sent) <= maxTurns
    /\ pc \in {"yield_result", "done"} =>
         /\ Len(sent) = maxTurns
         /\ TypesOf(notifications) = ShapeWith(maxTurns)
         /\ LastOf(notifications).success = TRUE
         /\ LastOf(notifications).subtype = "error_max_turns"

C4_Witness ==
  /\ Exhausted
  /\ AllRepliesContinue
  /\ maxTurns = 3
  /\ Len(roundTrips) = 3

\* C5: the first notification is Init with the resolved model id and the
\* permission mode ('default' when none is given), the second is UserEcho with
\* the literal prompt, and the caller holds both before the first request is
\* issued, whatever becomes of that request.
ExpectedModelId ==
  IF envModelId # Absent THEN envModelId
  ELSE IF options.model = "claude-3-haiku-20240307"
    THEN "anthropic.claude-3-haiku-20240307-v1:0"
    ELSE "us.anthropic.claude-sonnet-4-20250514-v1:0"
ExpectedPermissionMode ==
  IF options.permissionMode = Absent THEN "default" ELSE options.permissionMode
C5_InitAndEchoFirst ==
  /\ Len(notifications) >= 1 =>
       /\ notifications[1].type = "system"
       /\ notifications[1].subtype = "init"
       /\ notifications[1].model = ExpectedModelId
       /\ notifications[1].permissionMode = ExpectedPermissionMode
  /\ Len(notifications) >= 2 =>
       /\ notifications[2].type = "user"
       /\ notifications[2].content = prompt
  /\ Len(sent) >= 1 => callerSeen >= 2

C5_Witness ==
  /\ Len(roundTrips) = 1
  /\ roundTrips[1].kind = "reject"
  /\ options.permissionMode = Absent
  /\ TypesOf(notifications) = <<"system", "user", "result">>

\* C6 (as claimed): every complete sequence has length at least 4 and the
\* shape Init, UserEcho, one or more Assistant, Result.
C6_AtLeastOneAssistant ==
  Exhausted =>
    /\ Len(notifications) >= 4
    /\ \E n \in 1..Len(notifications) : TypesOf(notifications) = ShapeWith(n)

\* C6 (amended): every complete sequence has the shape Init, UserEcho, zero or
\* more Assistant, Result (length at least 3); it holds an Assistant, and so
\* has length at least 4, exactly when the first round trip did not fail, in
\* particular whenever the Result has success=true.
C6_ShapeOfCompleteRun ==
  Exhausted =>
    /\ Len(notifications) >= 3
    /\ \E n \in 0..Len(notifications) : TypesOf(notifications) = ShapeWith(n)
    /\ AssistantCount >= 1 <=> (roundTrips # <<>> /\ ~RoundTripFailed(roundTrips[1]))
    /\ LastOf(notifications).success => Len(notifications) >= 4

C6_Witness ==
  /\ Exhausted
  /\ Len(notifications) = 3
  /\ RoundTripFailed(roundTrips[1])

\* C7: a failure inside the turn loop, a reply without output.message like a
\* rejected send, ends in the Result{success:false} notification; the
\* generator never throws to the caller.
C7_FailuresBecomeResult ==
  /\ pc # "threw"
  /\ LastRoundTripFailed =>
       /\ LastOf(notifications).type = "result"
       /\ LastOf(notifications).success = FALSE

C7_Witness ==
  /\ Exhausted
  /\ Len(roundTrips) = 2
  /\ roundTrips[2].kind = "resolve"
  /\ roundTrips[2].response.defined
  /\ ~roundTrips[2].response.message.defined
  /\ LastOf(notifications).success = FALSE

\* C8: a reply with stop reason end_turn or stop_sequence is the last round
\* trip of its run: no request follows it, and its Assistant notification is
\* followed by the Result and nothing else.
C8_NaturalStopEndsRun ==
  \A i \in 1..Len(roundTrips) :
    RepliedNaturalStop(roundTrips[i]) =>
      /\ i = Len(roundTrips)
      /\ Len(sent) = i
      /\ Len(notifications) \in {i + 2, i + 3}
      /\ notifications[i + 2].type = "assistant"
      /\ Len(notifications) = i + 3 => notifications[i + 3].type = "result"
      /\ pc \in {"yield_assistant", "yield_result", "done"}

C8_Witness ==
  /\ Exhausted
  /\ Len(roundTrips) = 2
  /\ RepliedNaturalStop(roundTrips[2])
  /\ roundTrips[2].response.stopReason = "stop_sequence"
  /\ maxTurns = 3

\* C9: under fair scheduling every run whose cap lies within the model's
\* request bound reaches its end, with the Result emitted, and no run ever
\* issues more requests than its cap.
C9_Terminates ==
  /\ [](pc # "created" => Len(sent) <= maxTurns)
  /\ [](options.maxTurns \in 1..MaxRequests =>
          <>(Exhausted /\ LastOf(notifications).type = "result"
               /\ Len(roundTrips) <= maxTurns))

C9_Witness ==
  /\ Exhausted
  /\ maxTurns = 3
  /\ Len(roundTrips) = 3
  /\ \A i \in 1..3 : ~RoundTripFailed(roundTrips[i])
       /\ roundTrips[i].response.stopReason \in {"tool_use", "max_tokens"}

\* C10: the request of turn k is issued while the caller awaits the
\* notification after the k+1 delivered ones (UserEcho for k = 1, Assistant
\* k-1 otherwise), and at most one yielded notification is ever waiting to be
\* taken by the caller.
C10_PullDriven ==
  /\ Len(notifications) - callerSeen <= 1
  /\ Len(sent) >= 1 => callerSeen >= Len(sent) + 1
  /\ pc = "await_send" =>
       /\ nextPending
       /\ callerSeen = Len(notifications)
       /\ Len(notifications) = Len(sent) + 1

C10_Witness ==
  /\ pc = "await_send"
  /\ Len(sent) = 3
  /\ callerSeen = 4


\* The finished round trips whose reply was decoded (an Assistant was
\* yielded for them).
SucceededCount == Cardinality({i \in 1..Len(roundTrips) : ~RoundTripFailed(roundTrips[i])})
InFlight == Len(sent) - Len(roundTrips)
IsPrefix(s, t) == Len(s) <= Len(t) /\ \A i \in 1..Len(s) : s[i] = t[i]

\* C11: at most one backend request is in flight at any time (one exactly
\* while the generator awaits the send), and the assistant messages stand in
\* the transcript in the order in which their round trips completed.
C11_OneInFlightInOrder ==
  /\ InFlight \in {0, 1}
  /\ InFlight = 1 <=> pc = "await_send"
  /\ \A j \in 2..Len(conversationHistory) :
       /\ ~RoundTripFailed(roundTrips[j - 1])
       /\ conversationHistory[j].role = "assistant"
       /\ conversationHistory[j].content = roundTrips[j - 1].response.message.content

C11_Witness ==
  /\ Len(conversationHistory) = 4
  /\ conversationHistory[2].content # conversationHistory[3].content
  /\ conversationHistory[3].content # conversationHistory[4].content
  /\ Exhausted

\* C12: once the prompt has been pushed the transcript is the user message
\* holding the prompt followed by assistant messages only; it holds one
\* assistant message per completed cycle (a cycle is complete when the
\* generator has resumed after yielding its Assistant); and no step rewrites
\* or truncates it: the transcript before a step is a prefix of the one after.
TranscriptStarted == pc \notin {"created", "yield_init", "yield_user"}
C12_TranscriptShape ==
  /\ ~TranscriptStarted => conversationHistory = <<>>
  /\ TranscriptStarted =>
       /\ conversationHistory # <<>>
       /\ conversationHistory[1] = [role |-> "user", content |-> <<TextBlock(prompt)>>]
       /\ \A j \in 2..Len(conversationHistory) : conversationHistory[j].role = "assistant"
       /\ Len(conversationHistory) =
            1 + SucceededCount - (IF pc = "yield_assistant" THEN 1 ELSE 0)
C12_TranscriptAppendOnly ==
  /\ []C12_TranscriptShape
  /\ [][IsPrefix(conversationHistory, conversationHistory')]_vars

C12_Witness ==
  /\ Exhausted
  /\ Len(conversationHistory) = 3
  /\ LastRoundTripFailed

\* C13 (as claimed): every Assistant notification carries the stop reason by
\* which the driver classifies the turn and the token counts the reply reports.
C13_AssistantCarriesStopAndUsage ==
  \A i \in 1..Len(roundTrips) :
    ~RoundTripFailed(roundTrips[i]) =>
      LET reply == roundTrips[i].response
          assistant == notifications[i + 2]
      IN /\ assistant.type = "assistant"
         /\ assistant.stop_reason = reply.stopReason
         /\ assistant.usage.input_tokens = reply.usage.inputTokens
         /\ assistant.usage.output_tokens = reply.usage.outputTokens


\* ------------------------------------------------------ message transcoder
\* Longest content array given to the transcoder.
MaxBlocks == 2

\* Anthropic-format content blocks.  A tool_use block is known by its id: its
\* name and input are copied along with it in both directions.
SdkText(s) == [type |-> "text", text |-> s]
SdkToolUse(id) == [type |-> "tool_use", id |-> id]
ImageSource(type, data, bytes) ==
  [defined |-> TRUE, type |-> type, data |-> data, bytes |-> bytes]
NoImageSource == [defined |-> FALSE, type |-> Absent, data |-> Absent, bytes |-> Absent]
SdkImage(src) == [type |-> "image", source |-> src]
SdkToolResult(id, content) ==
  [type |-> "tool_result", tool_use_id |-> id, content |-> content]
\* A block of a type the transcoder does not know, with one property `data`.
SdkOther(type, data) == [type |-> type, data |-> data]

\* The content property of a message or of a tool_result: an array of blocks,
\* a string, or another value (an object, kept as its JSON text).
ArrayContent(blocks) == [kind |-> "array", blocks |-> blocks, value |-> Absent]
StringContent(s) == [kind |-> "string", blocks |-> <<>>, value |-> s]
ObjectContent(json) == [kind |-> "object", blocks |-> <<>>, value |-> json]

\* JSON.stringify of a block made by SdkOther.
Stringify(block) ==
  "{\"type\":\"" \o block.type \o "\",\"data\":\"" \o block.data \o "\"}"

\* The image payload of lines 123-131 and 167-175.
EncodeImage(block) ==
  [text |-> Absent, toolUse |-> Absent, other |-> "image",
   format |-> IF block.source.defined /\ Truthy(block.source.type)
                THEN block.source.type ELSE "png",
   bytes |-> IF ~block.source.defined THEN Absent
             ELSE IF Truthy(block.source.data) THEN block.source.data
             ELSE block.source.bytes]

EncodeToolResultPart(c) ==
  IF c.type = "text" THEN TextBlock(c.text)
  ELSE IF c.type = "image" THEN EncodeImage(c)
  ELSE TextBlock(Stringify(c))

\* transformToolResultToBedrock: {toolUseId, content}; `other` names the
\* payload, which has neither a text nor a toolUse property.
transformToolResultToBedrock(toolResult) ==
  [text |-> Absent, toolUse |-> Absent, other |-> "toolResult",
   toolUseId |-> toolResult.tool_use_id,
   content |-> IF toolResult.content.kind = "array"
                 THEN [i \in 1..Len(toolResult.content.blocks) |->
                         EncodeToolResultPart(toolResult.content.blocks[i])]
                 ELSE <<TextBlock(toolResult.content.value)>>]

\* (changed: a block of an unknown type is mapped like a text block)
EncodeBlock_NoFallback(block) ==
  IF block.type = "tool_use" THEN ToolUseBlock(block.id)
  ELSE IF block.type = "tool_result" THEN transformToolResultToBedrock(block)
  ELSE IF block.type = "image" THEN EncodeImage(block)
  ELSE IF block.type = "text" THEN TextBlock(block.text)
  ELSE TextBlock(Absent)

\* The callback of message.content.map (lines 151-178).
EncodeBlock(block) ==
  IF block.type = "text" THEN TextBlock(block.text)
  ELSE IF block.type = "tool_use" THEN ToolUseBlock(block.id)
  ELSE IF block.type = "tool_result" THEN transformToolResultToBedrock(block)
  ELSE IF block.type = "image" THEN EncodeImage(block)
  ELSE TextBlock(Stringify(block))

transformMessageToBedrock(m) ==
  [role |-> m.role,
   content |-> IF m.content.kind = "string" THEN <<TextBlock(m.content.value)>>
               ELSE IF m.content.kind = "array"
                 THEN [i \in 1..Len(m.content.blocks) |-> EncodeBlock(m.content.blocks[i])]
               ELSE <<TextBlock(m.content.value)>>]

\* The blocks and messages given to the transcoder.
CanonicalBlocks ==
  {SdkText("hi"), SdkText(""), SdkToolUse("tool-1"),
   SdkToolResult("tool-1", StringContent("done")),
   SdkToolResult("tool-1",
                 ArrayContent(<<SdkText("out"),
                                SdkImage(ImageSource("base64", "AAAA", Absent)),
                                SdkOther("document", "report")>>)),
   SdkImage(ImageSource("base64", "AAAA", Absent)),
   SdkImage(NoImageSource)}
OtherBlocks == {SdkOther("thinking", "hmm"), SdkOther("document", "report")}
SdkBlocks == CanonicalBlocks \cup OtherBlocks
SdkMessages ==
  {[role |-> "user", content |-> c] :
     c \in {ArrayContent(bs) : bs \in UNION {[1..n -> SdkBlocks] : n \in 0..MaxBlocks}}
             \cup {StringContent("plain prompt"), ObjectContent("{\"k\":1}")}}

\* The Bedrock messages given to the decoder directly.
ReceivedBlocks ==
  {TextBlock("hello"), TextBlock(""), ToolUseBlock("tool-1"),
   OtherBlock("reasoningContent"), OtherBlock("image"),
   WireBlock("calling", "tool-2", Absent)}
ReceivedMessages ==
  {[role |-> "assistant", content |-> bs] :
     bs \in UNION {[1..n -> ReceivedBlocks] : n \in 0..MaxBlocks}}

CodecInit ==
  /\ DriverUnused
  /\ StreamUnused
  /\ CostUnused
  /\ PairUnused
  /\ EnvUnused
  /\ FetchUnused
  /\ decoded = <<>>
  /\ \/ /\ codecPc = "input"
        /\ sdkMessage \in SdkMessages
        /\ wire = NoWireMessage
     \/ /\ codecPc = "received"
        /\ sdkMessage = NoSdkMessage
        /\ wire \in ReceivedMessages

\* transformMessageToBedrock(message)
Encode ==
  /\ codecPc = "input"
  /\ wire' = transformMessageToBedrock(sdkMessage)
  /\ codecPc' = "encoded"
  /\ UNCHANGED <<sdkMessage, decoded>>
  /\ UNCHANGED nonCodecVars

\* transformBedrockMessage(wire, modelId).message.content
Decode ==
  /\ codecPc \in {"encoded", "received"}
  /\ decoded' = transformBedrockMessage(WireMessage(wire.content, Absent),
                                         DefaultBedrockModel).content
  /\ codecPc' = IF codecPc = "encoded" THEN "roundtrip" ELSE "decoded"
  /\ UNCHANGED <<sdkMessage, wire>>
  /\ UNCHANGED nonCodecVars

CodecNext ==
  \/ Encode
  \/ Decode

CodecSpec == CodecInit /\ [][CodecNext]_vars

\* C14 (as claimed): decoding the encoding of a message made of Text, ToolUse,
\* ToolResult and Image blocks (the empty Text included) gives back the same
\* content blocks in the same order.
IsCanonical(block) == block.type \in {"text", "tool_use", "tool_result", "image"}
C14_RoundTripIsIdentity ==
  (/\ codecPc = "roundtrip"
   /\ sdkMessage.content.kind = "array"
   /\ \A i \in 1..Len(sdkMessage.content.blocks) : IsCanonical(sdkMessage.content.blocks[i]))
    => decoded = sdkMessage.content.blocks

\* C15 (as claimed): every wire content block gives a block of the decoded
\* message, so the decoded message has at least as many blocks as the wire
\* message.
C15_DecodeKeepsEveryBlock ==
  codecPc \in {"roundtrip", "decoded"} => Len(decoded) >= Len(wire.content)

\* C16: the encoder turns a block of an unknown type into one text payload
\* holding the block's serialized form, at the block's position, and string
\* or non-array content into a single text payload.
ExpectedJson(block) ==
  IF block = [type |-> "thinking", data |-> "hmm"]
    THEN "{\"type\":\"thinking\",\"data\":\"hmm\"}"
    ELSE "{\"type\":\"document\",\"data\":\"report\"}"
C16_UnknownBecomesText ==
  codecPc = "encoded" =>
    /\ wire.role = sdkMessage.role
    /\ sdkMessage.content.kind = "array" =>
         /\ Len(wire.content) = Len(sdkMessage.content.blocks)
         /\ \A i \in 1..Len(sdkMessage.content.blocks) :
              ~IsCanonical(sdkMessage.content.blocks[i]) =>
                wire.content[i] =
                  [text |-> ExpectedJson(sdkMessage.content.blocks[i]),
                   toolUse |-> Absent, other |-> Absent]
    /\ sdkMessage.content.kind = "string" =>
         wire.content = <<[text |-> "plain prompt", toolUse |-> Absent, other |-> Absent]>>
    /\ sdkMessage.content.kind = "object" =>
         wire.content = <<[text |-> "{\"k\":1}", toolUse |-> Absent, other |-> Absent]>>

C16_Witness ==
  /\ codecPc = "encoded"
  /\ sdkMessage.content.kind = "array"
  /\ Len(sdkMessage.content.blocks) = 2
  /\ sdkMessage.content.blocks[1].type = "text"
  /\ sdkMessage.content.blocks[2].type = "thinking"


\* ------------------------------------------------------ streaming client
\* Most events response.body delivers in a run of the model.
MaxFrames == 3

\* The six chunk types the stream translates (lines 184-208).
CanonicalTypes ==
  {"message_start", "content_block_start", "content_block_delta",
   "content_block_stop", "message_delta", "message_stop"}

\* An event of response.body.  chunk = FALSE: the event has no chunk
\* property; parses = FALSE: JSON.parse of the chunk's bytes throws.  The
\* parsed chunk has a type and the rest of its properties (payload); a
\* message_start chunk may hold a message with an id and a usage object.
Frame(type, payload) ==
  [chunk |-> TRUE, parses |-> TRUE, type |-> type, payload |-> payload,
   hasMessage |-> FALSE, id |-> Absent, usage |-> NoUsage]
StartFrame(hasMessage, id, usage) ==
  [chunk |-> TRUE, parses |-> TRUE, type |-> "message_start", payload |-> Absent,
   hasMessage |-> hasMessage, id |-> id, usage |-> usage]
NoChunkFrame ==
  [chunk |-> FALSE, parses |-> TRUE, type |-> Absent, payload |-> Absent,
   hasMessage |-> FALSE, id |-> Absent, usage |-> NoUsage]
MalformedFrame ==
  [chunk |-> TRUE, parses |-> FALSE, type |-> Absent, payload |-> Absent,
   hasMessage |-> FALSE, id |-> Absent, usage |-> NoUsage]

Frames ==
  {StartFrame(TRUE, "msg_01", Usage(25, 1)), StartFrame(TRUE, Absent, NoUsage),
   StartFrame(FALSE, Absent, NoUsage)}
    \cup {Frame(t, "payload of " \o t) : t \in CanonicalTypes \ {"message_start"}}
    \cup {Frame("ping", "keep-alive"), NoChunkFrame, MalformedFrame}

\* The errors the iteration of response.body throws, the values Date.now()
\* returns, and the modelId the client is configured with.
StreamErrors == {"ModelStreamErrorException"}
JsonSyntaxError == "Unexpected token in JSON"
Clock == {1762041600, 1762041601}
StreamModels == {"anthropic.claude-3-5-sonnet-20241022-v2:0"}

\* (changed: the id of the chunk is passed on as it is)
StartEvent_NoSynthesizedId(f, model, now) ==
  [type |-> "message_start",
   message |-> [id |-> IF f.hasMessage THEN f.id ELSE Absent,
                type |-> "message", role |-> "assistant", content |-> <<>>,
                model |-> model,
                usage |-> IF f.hasMessage /\ f.usage.defined
                            THEN [input_tokens |-> f.usage.inputTokens,
                                  output_tokens |-> f.usage.outputTokens]
                            ELSE [input_tokens |-> 0, output_tokens |-> 0]]]

\* The Anthropic-format message_start chunk of lines 185-195.
StartEvent(f, model, now) ==
  [type |-> "message_start",
   message |-> [id |-> IF f.hasMessage /\ Truthy(f.id)
                         THEN f.id ELSE "bedrock-" \o ToString(now),
                type |-> "message", role |-> "assistant", content |-> <<>>,
                model |-> model,
                usage |-> IF f.hasMessage /\ f.usage.defined
                            THEN [input_tokens |-> f.usage.inputTokens,
                                  output_tokens |-> f.usage.outputTokens]
                            ELSE [input_tokens |-> 0, output_tokens |-> 0]]]

\* A chunk passed on unchanged (JSON.stringify of the parsed chunk).
PassEvent(f) == [type |-> f.type, payload |-> f.payload]

\* (changed: a chunk of any other type is passed on as well)
TranslateFrame_PassUnknown(f, model, now) ==
  IF ~f.chunk THEN <<>>
  ELSE IF f.type = "message_start" THEN <<StartEvent(f, model, now)>>
  ELSE <<PassEvent(f)>>

\* (changed: the content_block_stop branch is missing)
TranslateFrame_NoBlockStop(f, model, now) ==
  IF ~f.chunk THEN <<>>
  ELSE IF f.type = "message_start" THEN <<StartEvent(f, model, now)>>
  ELSE IF f.type \in {"content_block_start", "content_block_delta",
                      "message_delta", "message_stop"} THEN <<PassEvent(f)>>
  ELSE <<>>

\* Lines 180-208 for a chunk that parses: the chunks enqueued for one event
\* of response.body (one or none).  The `data: ...\n\n` framing and the
\* text encoding of each chunk are left out.
TranslateFrame(f, model, now) ==
  IF ~f.chunk THEN <<>>
  ELSE IF f.type = "message_start" THEN <<StartEvent(f, model, now)>>
  ELSE IF f.type \in {"content_block_start", "content_block_delta",
                      "content_block_stop", "message_delta", "message_stop"}
    THEN <<PassEvent(f)>>
  ELSE <<>>

\* controller.enqueue(chunk) on a readable stream: the chunk settles a
\* waiting read(), or joins the queue.
ControllerEnqueue(chunk) ==
  /\ emitted' = Append(emitted, chunk)
  /\ IF readPending
       THEN /\ received' = Append(received, chunk)
            /\ readPending' = FALSE
            /\ UNCHANGED queue
       ELSE /\ queue' = Append(queue, chunk)
            /\ UNCHANGED <<received, readPending>>
  /\ UNCHANGED <<streamState, closeRequested, storedError, consumerEnd>>

\* controller.close(): the stream closes at once when nothing is queued,
\* otherwise when the queue has been read empty.
ControllerClose ==
  /\ IF queue = <<>>
       THEN /\ streamState' = "closed"
            /\ consumerEnd' = IF readPending THEN "done" ELSE consumerEnd
            /\ readPending' = FALSE
            /\ UNCHANGED closeRequested
       ELSE /\ closeRequested' = TRUE
            /\ UNCHANGED <<streamState, consumerEnd, readPending>>
  /\ UNCHANGED <<emitted, queue, storedError, received>>

\* controller.error(e): the queue is reset, the stream is errored and a
\* waiting read() is rejected.
ControllerError(e) ==
  /\ queue' = <<>>
  /\ streamState' = "errored"
  /\ storedError' = e
  /\ consumerEnd' = IF readPending THEN "error" ELSE consumerEnd
  /\ readPending' = FALSE
  /\ UNCHANGED <<emitted, closeRequested, received>>

StreamInit ==
  /\ DriverUnused
  /\ CodecUnused
  /\ CostUnused
  /\ PairUnused
  /\ EnvUnused
  /\ FetchUnused
  /\ streamPc = "send"
  /\ streamModel \in StreamModels
  /\ source = <<>>
  /\ emitted = <<>>
  /\ queue = <<>>
  /\ streamState = "readable"
  /\ closeRequested = FALSE
  /\ storedError = Absent
  /\ received = <<>>
  /\ readPending = FALSE
  /\ consumerEnd = "open"

\* Line 173: bedrockClient.send resolves; the stream is made, start() runs
\* up to its first await and the Response is returned.
StreamSendResolve ==
  /\ streamPc = "send"
  /\ streamPc' = "pumping"
  /\ UNCHANGED <<streamModel, source, emitted, queue, streamState, closeRequested,
                 storedError, received, readPending, consumerEnd>>
  /\ UNCHANGED nonStreamVars

\* Line 173: bedrockClient.send rejects; handleStreamingResponse throws and no
\* stream is made.
StreamSendReject ==
  /\ streamPc = "send"
  /\ streamPc' = "send_failed"
  /\ UNCHANGED <<streamModel, source, emitted, queue, streamState, closeRequested,
                 storedError, received, readPending, consumerEnd>>
  /\ UNCHANGED nonStreamVars

\* Lines 179-209: response.body delivers an event and the loop body runs.
SourceYield ==
  /\ streamPc = "pumping"
  /\ Len(source) < MaxFrames
  /\ \E f \in Frames, now \in Clock :
       /\ source' = Append(source, f)
       /\ IF f.chunk /\ ~f.parses
            THEN /\ ControllerError(JsonSyntaxError)
                 /\ streamPc' = "errored"
            ELSE /\ streamPc' = "pumping"
                 /\ IF TranslateFrame(f, streamModel, now) = <<>>
                      THEN UNCHANGED <<emitted, queue, streamState, closeRequested,
                                       storedError, received, readPending, consumerEnd>>
                      ELSE ControllerEnqueue(TranslateFrame(f, streamModel, now)[1])
  /\ UNCHANGED streamModel
  /\ UNCHANGED nonStreamVars

\* Line 210: response.body is exhausted.
SourceEnd ==
  /\ streamPc = "pumping"
  /\ streamPc' = "closed"
  /\ ControllerClose
  /\ UNCHANGED <<streamModel, source>>
  /\ UNCHANGED nonStreamVars

\* (changed: the error is caught inside the loop, which goes on)
SourceFail_KeepsPumping ==
  /\ streamPc = "pumping"
  /\ \E e \in StreamErrors : ControllerError(e)
  /\ streamPc' = "pumping"
  /\ UNCHANGED <<streamModel, source>>
  /\ UNCHANGED nonStreamVars

\* Lines 211-213: the iteration of response.body throws.
SourceFail ==
  /\ streamPc = "pumping"
  /\ \E e \in StreamErrors : ControllerError(e)
  /\ streamPc' = "errored"
  /\ UNCHANGED <<streamModel, source>>
  /\ UNCHANGED nonStreamVars

\* The reader of the Response body (line 217) calls read(), one call at a
\* time, until it sees the end of the stream or its error.
ConsumerRead ==
  /\ streamPc \in {"pumping", "closed", "errored"}
  /\ ~readPending
  /\ consumerEnd = "open"
  /\ IF queue # <<>>
       THEN /\ received' = Append(received, Head(queue))
            /\ queue' = Tail(queue)
            /\ streamState' = IF closeRequested /\ Tail(queue) = <<>>
                                THEN "closed" ELSE streamState
            /\ UNCHANGED <<readPending, consumerEnd>>
       ELSE /\ readPending' = (streamState = "readable")
            /\ consumerEnd' = CASE streamState = "readable" -> "open"
                                [] streamState = "closed" -> "done"
                                [] streamState = "errored" -> "error"
            /\ UNCHANGED <<received, queue, streamState>>
  /\ UNCHANGED <<streamPc, streamModel, source, emitted, closeRequested, storedError>>
  /\ UNCHANGED nonStreamVars

StreamNext ==
  \/ StreamSendResolve
  \/ StreamSendReject
  \/ SourceYield
  \/ SourceEnd
  \/ SourceFail
  \/ ConsumerRead

StreamSpec == StreamInit /\ [][StreamNext]_vars

\* The events of response.body for which a chunk is enqueued.
IsCanonicalFrame(f) == f.chunk /\ f.parses /\ f.type \in CanonicalTypes
TranslatedFrames == SelectSeq(source, IsCanonicalFrame)
AllFramesCanonical == \A i \in 1..Len(source) : IsCanonicalFrame(source[i])

\* C17: for a sequence of frames of the six kinds the stream emits one event
\* per frame, in the order of receipt, of the same kind, and the frames other
\* than message_start keep their payload.
C17_OneEventPerFrame ==
  AllFramesCanonical =>
    /\ Len(emitted) = Len(source)
    /\ \A i \in 1..Len(source) :
         /\ emitted[i].type = source[i].type
         /\ source[i].type # "message_start" =>
              emitted[i] = [type |-> source[i].type, payload |-> source[i].payload]

C17_Witness ==
  /\ Len(source) = 3
  /\ source[1] = StartFrame(TRUE, Absent, NoUsage)
  /\ source[2].type = "content_block_delta"
  /\ source[3].type = "message_stop"
  /\ Len(emitted) = 3
  /\ emitted[1].message.id # ""

\* C18: every message_start event emitted has a non-empty id (the backend's
\* when it gives one, a made-up one otherwise), role 'assistant', the
\* configured model id, and the backend's usage or zero counts.
C18_MessageStartFilled ==
  /\ Len(emitted) = Len(TranslatedFrames)
  /\ \A i \in 1..Len(emitted) :
       emitted[i].type = "message_start" =>
         LET f == TranslatedFrames[i]
             m == emitted[i].message
         IN /\ m.id \notin {"", Absent}
            /\ f.id \notin {"", Absent} => m.id = f.id
            /\ f.id \in {"", Absent} => \E now \in Clock : m.id = "bedrock-" \o ToString(now)
            /\ m.role = "assistant"
            /\ m.model = streamModel
            /\ m.usage = IF f.usage.defined
                           THEN [input_tokens |-> f.usage.inputTokens,
                                 output_tokens |-> f.usage.outputTokens]
                           ELSE [input_tokens |-> 0, output_tokens |-> 0]

C18_Witness ==
  /\ Len(emitted) = 2
  /\ emitted[1].type = "message_start"
  /\ emitted[1].message.id = "msg_01"
  /\ emitted[1].message.usage = [input_tokens |-> 25, output_tokens |-> 1]
  /\ emitted[2].type = "message_start"
  /\ emitted[2].message.id = "bedrock-1762041601"
  /\ emitted[2].message.usage = [input_tokens |-> 0, output_tokens |-> 0]

\* C19 (as claimed): when the source fails after k events were emitted, the
\* consumer observes those k events, in order, and then the error.
C19_PartialOutputStands ==
  consumerEnd = "error" =>
    /\ storedError \in StreamErrors \cup {JsonSyntaxError}
    /\ received = emitted

\* C20 (as claimed): at most one emitted event is ever waiting for the
\* consumer.
C20_AtMostOneBuffered == Len(emitted) - Len(received) <= 1

\* ---------------------------------------------------------- cost estimate
\* Most messages of a transcript given to the estimator.
MaxCostMessages == 3

CostBlocks == {TextBlock("a"), ToolUseBlock("tool-1")}

CostInit ==
  /\ DriverUnused
  /\ CodecUnused
  /\ StreamUnused
  /\ PairUnused
  /\ EnvUnused
  /\ FetchUnused
  /\ costHistory = <<>>
  /\ costEstimate = EstimatedCost(<<>>)

\* A message without blocks is pushed on the transcript (lines 277, 315) and
\* the estimate of lines 357-360 is taken.
AppendMessage ==
  /\ Len(costHistory) < MaxCostMessages
  /\ costHistory' =
       Append(costHistory,
              [role |-> IF costHistory = <<>> THEN "user" ELSE "assistant",
               content |-> <<>>])
  /\ costEstimate' = EstimatedCost(costHistory')
  /\ UNCHANGED nonCostVars

\* The last message of the transcript has one block more, and the estimate
\* of lines 357-360 is taken.
AppendBlock ==
  /\ costHistory # <<>>
  /\ Len(costHistory[Len(costHistory)].content) < MaxBlocks
  /\ \E block \in CostBlocks :
       costHistory' =
         [costHistory EXCEPT ![Len(costHistory)].content = Append(@, block)]
  /\ costEstimate' = EstimatedCost(costHistory')
  /\ UNCHANGED nonCostVars

CostNext ==
  \/ AppendMessage
  \/ AppendBlock

CostSpec == CostInit /\ [][CostNext]_vars

\* The content blocks of a transcript, each named by its place.
BlockPlaces(history) ==
  UNION {{<<i, j>> : j \in 1..Len(history[i].content)} : i \in 1..Len(history)}

\* C21: the cost estimate is 4 tokens per content block of the transcript,
\* divided by 1,000,000 and multiplied by 3.0 (here in millionths of a
\* dollar); it is zero for the empty transcript and it never goes down when a
\* message or a block is appended.
C21_CostFormula ==
  /\ costEstimate = (4 * Cardinality(BlockPlaces(costHistory))) * 3
  /\ costHistory = <<>> => costEstimate = 0
C21_CostEstimate ==
  /\ []C21_CostFormula
  /\ [][costEstimate' >= costEstimate]_vars

C21_Witness ==
  /\ Len(costHistory) = 3
  /\ Len(costHistory[1].content) = 1
  /\ Len(costHistory[2].content) = 0
  /\ Len(costHistory[3].content) = 2
  /\ costEstimate = 36

\* ------------------------------------------------------------ two runs
\* Two calls of the function createBedrockQueryFunction returned.  They share
\* the closure's bedrockClient and the environment; everything else is local
\* to the call.  The first run is the generator of the sections above; the
\* second is `peer`, the same body with its caller pulling without pause, so
\* that it stands only at the await of bedrockClient.send.
PeerPrompts == {"Say goodbye"}
PeerOptionSets == {[model |-> "claude-3-5-sonnet-20241022", maxTurns |-> 2,
                    permissionMode |-> Absent]}
PeerResponses ==
  {Reply("tool_use", <<TextBlock("calling"), ToolUseBlock("tool-1")>>),
   Reply("end_turn", <<TextBlock("hello")>>),
   UndefinedResponse}
PeerSendErrors == {"AccessDeniedException"}

\* Lines 251-308: the body up to the first await.
PeerStarted(p, options2, envId) ==
  LET mid == getBedrockModelId(envId, options2.model)
      cap == ResolveMaxTurns(options2.maxTurns)
      history == <<UserMessage(p.prompt)>>
      first == <<InitNotification(mid, options2.permissionMode), UserNotification(p.prompt)>>
  IN IF 0 < cap
       THEN [p EXCEPT !.pc = "await_send", !.modelId = mid, !.maxTurns = cap,
                      !.turnCount = 1, !.conversationHistory = history,
                      !.notifications = first]
       ELSE [p EXCEPT !.pc = "done", !.modelId = mid, !.maxTurns = cap,
                      !.conversationHistory = history,
                      !.notifications = Append(first, FinalResult(0, cap, history))]

\* Lines 337-353: the catch block.
PeerFailed(p, outcome, message) ==
  [p EXCEPT !.pc = "done",
            !.roundTrips = Append(@, outcome),
            !.notifications = Append(@, ErrorResult(message))]

\* Lines 308-335 and the loop test, from the reply to the next await or to
\* the final Result.
PeerResolved(p, r) ==
  LET outcome == [kind |-> "resolve", response |-> r]
      history == Append(p.conversationHistory, AssistantMessage(r))
  IN IF ~r.defined THEN PeerFailed(p, outcome, TypeErrorReading("output"))
     ELSE IF ~r.message.defined THEN PeerFailed(p, outcome, TypeErrorReading("content"))
     ELSE IF ~StopsNaturally(r) /\ p.turnCount < p.maxTurns
       THEN [p EXCEPT !.roundTrips = Append(@, outcome),
                      !.notifications =
                        Append(@, transformBedrockMessage(r.message, p.modelId)),
                      !.conversationHistory = history,
                      !.turnCount = @ + 1]
       ELSE [p EXCEPT !.pc = "done",
                      !.roundTrips = Append(@, outcome),
                      !.notifications =
                        @ \o <<transformBedrockMessage(r.message, p.modelId),
                               FinalResult(p.turnCount, p.maxTurns, history)>>,
                      !.conversationHistory = history]

\* Line 308 rejects.
PeerRejected(p, message) ==
  PeerFailed(p, [kind |-> "reject", message |-> message], message)

PairInit ==
  /\ CodecUnused
  /\ StreamUnused
  /\ CostUnused
  /\ EnvUnused
  /\ FetchUnused
  /\ DriverInit
  /\ options.maxTurns = 2
  /\ options.permissionMode = Absent
  /\ peer \in {[NoPeer EXCEPT !.pc = "created", !.prompt = p] : p \in PeerPrompts}

PeerStart ==
  /\ peer.pc = "created"
  /\ \E options2 \in PeerOptionSets : peer' = PeerStarted(peer, options2, envModelId)
  /\ UNCHANGED <<driverVars, codecVars, streamVars, costVars, envVars, fetchVars>>

\* (changed: conversationHistory is a variable of the closure, one for both
\* runs)
PeerResolve_SharedTranscript ==
  /\ peer.pc = "await_send"
  /\ \E r \in PeerResponses :
       /\ peer' = PeerResolved(peer, r)
       /\ conversationHistory' = Append(conversationHistory, AssistantMessage(r))
  /\ UNCHANGED <<prompt, options, envModelId, pc, modelId, maxTurns, turnCount,
                 response, notifications, nextPending, callerSeen, sent, roundTrips>>
  /\ UNCHANGED <<codecVars, streamVars, costVars, envVars, fetchVars>>

PeerResolve ==
  /\ peer.pc = "await_send"
  /\ \E r \in PeerResponses : peer' = PeerResolved(peer, r)
  /\ UNCHANGED <<driverVars, codecVars, streamVars, costVars, envVars, fetchVars>>

PeerReject ==
  /\ peer.pc = "await_send"
  /\ \E message \in PeerSendErrors : peer' = PeerRejected(peer, message)
  /\ UNCHANGED <<driverVars, codecVars, streamVars, costVars, envVars, fetchVars>>

PairNext ==
  \/ Next
  \/ PeerStart
  \/ PeerResolve
  \/ PeerReject

PairSpec == PairInit /\ [][PairNext]_vars

\* A step the second run can take when it executes alone.
PeerAloneStep ==
  \/ /\ peer.pc = "created"
     /\ \E options2 \in PeerOptionSets : peer' = PeerStarted(peer, options2, envModelId)
  \/ /\ peer.pc = "await_send"
     /\ \/ \E r \in PeerResponses : peer' = PeerResolved(peer, r)
        \/ \E message \in PeerSendErrors : peer' = PeerRejected(peer, message)
PeerSucceeded ==
  Cardinality({i \in 1..Len(peer.roundTrips) : ~RoundTripFailed(peer.roundTrips[i])})

\* C22: two runs of one query function interleaved in any order: every step
\* is a step one of the runs takes when it executes alone, a step of one run
\* leaves the transcript, the turn counter and the notifications of the
\* other as they are, and each transcript holds its own prompt and its own
\* replies only.
C22_OwnTranscripts ==
  /\ C12_TranscriptShape
  /\ turnCount = Len(sent)
  /\ peer.pc # "created" =>
       /\ peer.conversationHistory[1] = UserMessage(peer.prompt)
       /\ Len(peer.conversationHistory) = 1 + PeerSucceeded
       /\ \A j \in 2..Len(peer.conversationHistory) :
            peer.conversationHistory[j] = AssistantMessage(peer.roundTrips[j - 1].response)
       /\ peer.turnCount = Len(peer.roundTrips) + (IF peer.pc = "await_send" THEN 1 ELSE 0)
C22_RunsIsolated ==
  /\ []C22_OwnTranscripts
  /\ [][/\ driverVars' # driverVars => Next
        /\ peer' # peer => PeerAloneStep /\ UNCHANGED driverVars]_vars

C22_Witness ==
  /\ pc = "await_send"
  /\ turnCount = 2
  /\ peer.pc = "await_send"
  /\ peer.turnCount = 2
  /\ conversationHistory[2] # peer.conversationHistory[2]

\* ------------------------------------------------------- driver, continued
AssistantIndices == {i \in 1..Len(notifications) : notifications[i].type = "assistant"}

\* C23 (as claimed): within a run the input_tokens and output_tokens of an
\* Assistant notification are at least those of the Assistant before it.
C23_UsageNeverDecreases ==
  \A i, j \in AssistantIndices :
    i < j =>
      /\ notifications[i].usage.input_tokens <= notifications[j].usage.input_tokens
      /\ notifications[i].usage.output_tokens <= notifications[j].usage.output_tokens

\* ------------------------------------------------------------ environment
\* The values each variable of process.env takes ("" is set and falsy).
EnvValues(name) ==
  CASE name = "USE_BEDROCK" -> {Absent, "true", "false", "1"}
    [] name = "BEDROCK_ENABLED" -> {Absent, "true"}
    [] name = "BEDROCK_API_KEY" -> {Absent, "", "bedrock-api-key"}
    [] name = "AWS_ACCESS_KEY_ID" -> {Absent, "AKIAEXAMPLE"}
    [] name = "AWS_SECRET_ACCESS_KEY" -> {Absent, "aws-secret"}
    [] name = "ANTHROPIC_API_KEY" -> {Absent, "", "sk-ant-example"}
    [] name = "CLAUDE_CODE_OAUTH_TOKEN" -> {Absent, "oauth-token"}
    [] name = "BEDROCK_MODEL_ID" -> {Absent, "", "eu.anthropic.claude-custom-v1:0"}
Environments ==
  {[n \in EnvNames |->
      CASE n = "USE_BEDROCK" -> use
        [] n = "BEDROCK_ENABLED" -> enabled
        [] n = "BEDROCK_API_KEY" -> apiKey
        [] n = "AWS_ACCESS_KEY_ID" -> keyId
        [] n = "AWS_SECRET_ACCESS_KEY" -> secret
        [] n = "ANTHROPIC_API_KEY" -> anthropic
        [] n = "CLAUDE_CODE_OAUTH_TOKEN" -> oauth
        [] n = "BEDROCK_MODEL_ID" -> model] :
     use \in EnvValues("USE_BEDROCK"), enabled \in EnvValues("BEDROCK_ENABLED"),
     apiKey \in EnvValues("BEDROCK_API_KEY"), keyId \in EnvValues("AWS_ACCESS_KEY_ID"),
     secret \in EnvValues("AWS_SECRET_ACCESS_KEY"),
     anthropic \in EnvValues("ANTHROPIC_API_KEY"),
     oauth \in EnvValues("CLAUDE_CODE_OAUTH_TOKEN"),
     model \in EnvValues("BEDROCK_MODEL_ID")}

\* The model names getBedrockModelId is called with.
ModelNames ==
  {"claude-sonnet-4-5-20250929", "claude-3-5-sonnet-20241022",
   "claude-3-5-sonnet-20240620", "claude-3-sonnet-20240229",
   "claude-3-opus-20240229", "claude-3-haiku-20240307",
   "unknown-model", "constructor", Absent}

Returned(value) == [threw |-> FALSE, enabled |-> FALSE, value |-> value, message |-> <<>>]
ReturnedFlag(flag) == [threw |-> FALSE, enabled |-> flag, value |-> Absent, message |-> <<>>]
Threw(message) == [threw |-> TRUE, enabled |-> FALSE, value |-> Absent, message |-> message]

\* (changed: AWS credentials enable Bedrock whatever else is set)
isBedrockEnabled_AwsFirst(e) ==
  LET explicitlyEnabled == e["USE_BEDROCK"] = "true" \/ e["BEDROCK_ENABLED"] = "true"
      hasBedrockApiKey == Truthy(e["BEDROCK_API_KEY"])
      hasAwsCredentials ==
        Truthy(e["AWS_ACCESS_KEY_ID"]) /\ Truthy(e["AWS_SECRET_ACCESS_KEY"])
      hasAnthropicCreds ==
        Truthy(e["ANTHROPIC_API_KEY"]) \/ Truthy(e["CLAUDE_CODE_OAUTH_TOKEN"])
  IN \/ explicitlyEnabled
     \/ hasBedrockApiKey /\ ~hasAnthropicCreds
     \/ hasAwsCredentials

\* Lines 23-41.
isBedrockEnabled(e) ==
  LET explicitlyEnabled == e["USE_BEDROCK"] = "true" \/ e["BEDROCK_ENABLED"] = "true"
      hasBedrockApiKey == Truthy(e["BEDROCK_API_KEY"])
      hasAwsCredentials ==
        Truthy(e["AWS_ACCESS_KEY_ID"]) /\ Truthy(e["AWS_SECRET_ACCESS_KEY"])
      hasAnthropicCreds ==
        Truthy(e["ANTHROPIC_API_KEY"]) \/ Truthy(e["CLAUDE_CODE_OAUTH_TOKEN"])
  IN \/ explicitlyEnabled
     \/ hasBedrockApiKey /\ ~hasAnthropicCreds
     \/ hasAwsCredentials /\ ~hasAnthropicCreds

\* The error messages, as the words of their first three lines (the lines of
\* validateBedrockConfig's message that follow tell how to generate a key and
\* name no variable).
ValidateErrorMessage ==
  <<"Bedrock", "authentication", "required.", "Set", "one", "of:",
    "Option", "1", "(Recommended):", "BEDROCK_API_KEY=\"your-bedrock-api-key\"",
    "Option", "2", "(Traditional):", "AWS_ACCESS_KEY_ID", "+", "AWS_SECRET_ACCESS_KEY">>
ClientErrorMessage ==
  <<"Bedrock", "authentication", "required.", "Set", "one", "of:",
    "-", "BEDROCK_API_KEY", "(simple,", "recommended)",
    "-", "AWS_ACCESS_KEY_ID", "+", "AWS_SECRET_ACCESS_KEY", "(traditional)">>

\* (changed: the access key id alone counts as AWS credentials)
validateBedrockConfig_KeyIdOnly(e) ==
  IF Truthy(e["BEDROCK_API_KEY"]) THEN Returned(Absent)
  ELSE IF Truthy(e["AWS_ACCESS_KEY_ID"]) THEN Returned(Absent)
  ELSE Threw(ValidateErrorMessage)

\* Lines 382-411.
validateBedrockConfig(e) ==
  IF Truthy(e["BEDROCK_API_KEY"]) THEN Returned(Absent)
  ELSE IF Truthy(e["AWS_ACCESS_KEY_ID"]) /\ Truthy(e["AWS_SECRET_ACCESS_KEY"])
    THEN Returned(Absent)
  ELSE Threw(ValidateErrorMessage)

\* (changed: the Bedrock API key is not looked at)
createBedrockClient_AwsOnly(e) ==
  IF Truthy(e["AWS_ACCESS_KEY_ID"]) /\ Truthy(e["AWS_SECRET_ACCESS_KEY"])
    THEN Returned("BedrockRuntimeClient")
  ELSE Threw(ClientErrorMessage)

\* Lines 73-110.
createBedrockClient(e) ==
  IF Truthy(e["BEDROCK_API_KEY"]) THEN Returned("BedrockRuntimeClient")
  ELSE IF Truthy(e["AWS_ACCESS_KEY_ID"]) /\ Truthy(e["AWS_SECRET_ACCESS_KEY"])
    THEN Returned("BedrockRuntimeClient")
  ELSE Threw(ClientErrorMessage)

\* Lines 240-251: the client is made first; its error leaves the function.
createBedrockQueryFunction(e) ==
  IF createBedrockClient(e).threw THEN createBedrockClient(e)
  ELSE Returned("bedrockQuery")

EnvInit ==
  /\ DriverUnused
  /\ CodecUnused
  /\ StreamUnused
  /\ CostUnused
  /\ PairUnused
  /\ FetchUnused
  /\ processEnv \in Environments
  /\ envPc = "fresh"
  /\ envCall = NoCall
  /\ envOutcome = NoOutcome

CallIsBedrockEnabled ==
  /\ envPc = "fresh"
  /\ envCall' = [fn |-> "isBedrockEnabled", arg |-> Absent]
  /\ envOutcome' = ReturnedFlag(isBedrockEnabled(processEnv))
  /\ envPc' = "returned"
  /\ UNCHANGED processEnv
  /\ UNCHANGED nonEnvVars

CallGetBedrockModelId ==
  /\ envPc = "fresh"
  /\ \E name \in ModelNames :
       /\ envCall' = [fn |-> "getBedrockModelId", arg |-> name]
       /\ envOutcome' = Returned(getBedrockModelId(processEnv["BEDROCK_MODEL_ID"], name))
  /\ envPc' = "returned"
  /\ UNCHANGED processEnv
  /\ UNCHANGED nonEnvVars

CallValidateBedrockConfig ==
  /\ envPc = "fresh"
  /\ envCall' = [fn |-> "validateBedrockConfig", arg |-> Absent]
  /\ envOutcome' = validateBedrockConfig(processEnv)
  /\ envPc' = IF envOutcome'.threw THEN "threw" ELSE "returned"
  /\ UNCHANGED processEnv
  /\ UNCHANGED nonEnvVars

CallCreateBedrockQueryFunction ==
  /\ envPc = "fresh"
  /\ envCall' = [fn |-> "createBedrockQueryFunction", arg |-> Absent]
  /\ envOutcome' = createBedrockQueryFunction(processEnv)
  /\ envPc' = IF envOutcome'.threw THEN "threw" ELSE "returned"
  /\ UNCHANGED processEnv
  /\ UNCHANGED nonEnvVars

\* The caller calls the query function it was given: a generator is made.
CallQueryFunction ==
  /\ envPc = "returned"
  /\ envOutcome.value = "bedrockQuery"
  /\ envPc' = "generator_created"
  /\ UNCHANGED <<processEnv, envCall, envOutcome>>
  /\ UNCHANGED nonEnvVars

EnvNext ==
  \/ CallIsBedrockEnabled
  \/ CallGetBedrockModelId
  \/ CallValidateBedrockConfig
  \/ CallCreateBedrockQueryFunction
  \/ CallQueryFunction

EnvSpec == EnvInit /\ [][EnvNext]_vars

\* A variable counts as set when it holds a non-empty value.
IsSet(name) == processEnv[name] \notin {Absent, ""}
HasBedrockCredentials ==
  IsSet("BEDROCK_API_KEY") \/ (IsSet("AWS_ACCESS_KEY_ID") /\ IsSet("AWS_SECRET_ACCESS_KEY"))
HasAnthropicCredentials == IsSet("ANTHROPIC_API_KEY") \/ IsSet("CLAUDE_CODE_OAUTH_TOKEN")
Called(fn) == envCall.fn = fn /\ envPc # "fresh"
Names(message, name) == \E i \in 1..Len(message) : message[i] = name

\* C24 (as claimed): without BEDROCK_API_KEY and without the pair of AWS keys
\* isBedrockEnabled() returns false, whatever the other variables hold.
C24_NotEnabledWithoutCredentials ==
  Called("isBedrockEnabled") /\ ~HasBedrockCredentials => envOutcome.enabled = FALSE

\* C25: with ANTHROPIC_API_KEY or CLAUDE_CODE_OAUTH_TOKEN set and neither
\* USE_BEDROCK nor BEDROCK_ENABLED equal to 'true', isBedrockEnabled() returns
\* false whatever AWS credentials or BEDROCK_API_KEY are present; with
\* USE_BEDROCK = 'true' it returns true even when Anthropic credentials exist.
C25_AnthropicTakesPrecedence ==
  Called("isBedrockEnabled") =>
    /\ (/\ HasAnthropicCredentials
        /\ processEnv["USE_BEDROCK"] # "true"
        /\ processEnv["BEDROCK_ENABLED"] # "true") => envOutcome.enabled = FALSE
    /\ processEnv["USE_BEDROCK"] = "true" => envOutcome.enabled = TRUE

C25_Witness ==
  /\ Called("isBedrockEnabled")
  /\ IsSet("ANTHROPIC_API_KEY")
  /\ IsSet("AWS_ACCESS_KEY_ID")
  /\ IsSet("AWS_SECRET_ACCESS_KEY")
  /\ IsSet("BEDROCK_API_KEY")
  /\ processEnv["USE_BEDROCK"] = "false"
  /\ processEnv["BEDROCK_ENABLED"] = Absent
  /\ envOutcome.enabled = FALSE

DocumentedModels ==
  {"claude-sonnet-4-5-20250929", "claude-3-5-sonnet-20241022",
   "claude-3-5-sonnet-20240620", "claude-3-sonnet-20240229",
   "claude-3-opus-20240229", "claude-3-haiku-20240307"}
DocumentedBedrockId(name) ==
  CASE name = "claude-sonnet-4-5-20250929" -> "us.anthropic.claude-sonnet-4-20250514-v1:0"
    [] name = "claude-3-5-sonnet-20241022" -> "us.anthropic.claude-3-5-sonnet-20241022-v2:0"
    [] name = "claude-3-5-sonnet-20240620" -> "anthropic.claude-3-5-sonnet-20240620-v1:0"
    [] name = "claude-3-sonnet-20240229" -> "anthropic.claude-3-sonnet-20240229-v1:0"
    [] name = "claude-3-opus-20240229" -> "anthropic.claude-3-opus-20240229-v1:0"
    [] name = "claude-3-haiku-20240307" -> "anthropic.claude-3-haiku-20240307-v1:0"

\* C27 (as claimed): getBedrockModelId returns BEDROCK_MODEL_ID when it is
\* set; otherwise the documented Bedrock id of a documented model name, and
\* us.anthropic.claude-sonnet-4-20250514-v1:0 for every other name.
C27_ModelIdMapping ==
  Called("getBedrockModelId") =>
    envOutcome.value =
      IF IsSet("BEDROCK_MODEL_ID") THEN processEnv["BEDROCK_MODEL_ID"]
      ELSE IF envCall.arg \in DocumentedModels THEN DocumentedBedrockId(envCall.arg)
      ELSE "us.anthropic.claude-sonnet-4-20250514-v1:0"

\* C28: createBedrockQueryFunction() throws, before any generator exists,
\* in exactly the environments in which validateBedrockConfig() throws
\* (neither BEDROCK_API_KEY nor both AWS keys set), and returns a query
\* function in every other environment.
C28_ConfigErrorBeforeAnyRun ==
  /\ Called("createBedrockQueryFunction") =>
       /\ envOutcome.threw <=> validateBedrockConfig(processEnv).threw
       /\ envOutcome.threw <=> ~HasBedrockCredentials
       /\ envOutcome.threw => envPc = "threw"
       /\ ~envOutcome.threw => envOutcome.value = "bedrockQuery"
  /\ envPc = "generator_created" =>
       /\ envCall.fn = "createBedrockQueryFunction"
       /\ HasBedrockCredentials

C28_Witness ==
  /\ Called("createBedrockQueryFunction")
  /\ envPc = "threw"
  /\ IsSet("AWS_ACCESS_KEY_ID")
  /\ ~IsSet("AWS_SECRET_ACCESS_KEY")
  /\ processEnv["BEDROCK_API_KEY"] = ""
  /\ processEnv["USE_BEDROCK"] = "true"

\* C29: when the generator resumes after the Assistant of a reply whose stop
\* reason is not end_turn or stop_sequence (tool_use, max_tokens, another
\* value, or none) and the turn counter is below the cap, it issues the next
\* request: the turn counter goes up by one, the transcript grows by the
\* assistant reply alone (no user or tool-result message), nothing is
\* yielded, and the request carries that transcript.
C29_NonTerminalContinues ==
  [][(/\ pc = "yield_assistant"
      /\ pc' # "yield_assistant"
      /\ response.stopReason \notin {"end_turn", "stop_sequence"}
      /\ turnCount < maxTurns)
       => /\ pc' = "await_send"
          /\ turnCount' = turnCount + 1
          /\ notifications' = notifications
          /\ conversationHistory' =
               Append(conversationHistory,
                      [role |-> "assistant", content |-> response.message.content])
          /\ sent' = Append(sent, [modelId |-> modelId, messages |-> conversationHistory'])]_vars

C29_Witness ==
  /\ Len(roundTrips) = 2
  /\ ~RoundTripFailed(roundTrips[1])
  /\ roundTrips[1].response.stopReason = Absent
  /\ ~RoundTripFailed(roundTrips[2])
  /\ roundTrips[2].response.stopReason = "max_tokens"
  /\ Len(sent) = 3
  /\ pc = "await_send"

\* C30: the request of turn k carries k messages: the user message of the
\* prompt, then the k-1 assistant replies received so far, in the order of
\* receipt, each with the content blocks the backend returned.
C30_RequestCarriesTranscript ==
  \A k \in 1..Len(sent) :
    /\ Len(sent[k].messages) = k
    /\ sent[k].messages[1] = [role |-> "user", content |-> <<TextBlock(prompt)>>]
    /\ \A j \in 2..k :
         /\ ~RoundTripFailed(roundTrips[j - 1])
         /\ sent[k].messages[j] =
              [role |-> "assistant",
               content |-> roundTrips[j - 1].response.message.content]

C30_Witness ==
  /\ Len(sent) = 3
  /\ Len(sent[3].messages) = 3
  /\ sent[3].messages[2].content = <<TextBlock("calling"), ToolUseBlock("tool-1")>>
  /\ sent[3].messages[3].content = <<OtherBlock("reasoningContent")>>

\* C31: the turn counter starts at 0, goes up by exactly one with each
\* backend request and at no other time, never goes down, never exceeds the
\* cap, and equals the number of requests issued; a cap that is not given
\* is 100.
BodyStarted == pc # "created"
C31_CounterNow ==
  /\ ~BodyStarted => turnCount = 0
  /\ turnCount = Len(sent)
  /\ BodyStarted =>
       /\ turnCount <= maxTurns
       /\ maxTurns = IF options.maxTurns = 0 THEN 100 ELSE options.maxTurns
C31_TurnCounter ==
  /\ []C31_CounterNow
  /\ [][\/ turnCount' = turnCount /\ sent' = sent
        \/ /\ turnCount' = turnCount + 1
           /\ Len(sent') = Len(sent) + 1
           /\ pc' = "await_send"]_vars

C31_Witness ==
  /\ options.maxTurns = 0
  /\ maxTurns = 100
  /\ turnCount = 3
  /\ Len(roundTrips) = 3

\* C33: a turn whose round trip raises, or whose reply cannot be decoded,
\* appends nothing: from the failure on, and at the terminal Result, the
\* transcript is the one the failing request carried.
C33_FailedCycleKeepsTranscript ==
  LastRoundTripFailed =>
    /\ conversationHistory = sent[Len(sent)].messages
    /\ Len(conversationHistory) = Len(roundTrips)

C33_Witness ==
  /\ Exhausted
  /\ Len(roundTrips) = 2
  /\ roundTrips[2].kind = "resolve"
  /\ RoundTripFailed(roundTrips[2])
  /\ LastOf(notifications).subtype = "error_during_execution"
  /\ Len(conversationHistory) = 2

\* C34: a Result carries total_cost_usd = 0 exactly when the run failed; a
\* Result with success = true carries a cost above zero, at least that of the
\* one block of the user message (4 tokens, 12 millionths of a dollar).
C34_ZeroCostIffFailed ==
  \A i \in ResultIndices :
    /\ notifications[i].total_cost_usd = 0 <=> ~notifications[i].success
    /\ notifications[i].success =>
         /\ notifications[i].total_cost_usd >= 12
         /\ Len(conversationHistory[1].content) = 1

C34_Witness ==
  /\ Exhausted
  /\ LastOf(notifications).success
  /\ LastOf(notifications).total_cost_usd = 12
  /\ Len(conversationHistory) = 2

\* ----------------------------------------------------- stream, continued
\* A frame for which nothing is enqueued: no chunk, or a chunk of another
\* type.
IsSkippedFrame(f) == f.parses /\ (~f.chunk \/ f.type \notin CanonicalTypes)

\* C35: a frame without a chunk, or with a chunk whose type is none of the
\* six, gives no event and neither ends nor fails the stream; the events of
\* the frames around it are emitted in the order of receipt.
C35_EmittedFollowsTranslated ==
  /\ Len(emitted) = Len(TranslatedFrames)
  /\ \A i \in 1..Len(emitted) : emitted[i].type = TranslatedFrames[i].type
C35_SkippedFramesAreSilent ==
  /\ []C35_EmittedFollowsTranslated
  /\ [][(source' # source /\ IsSkippedFrame(source'[Len(source')]))
          => /\ emitted' = emitted
             /\ streamPc' = "pumping"
             /\ UNCHANGED <<queue, streamState, closeRequested, storedError,
                            received, readPending, consumerEnd>>]_vars

C35_Witness ==
  /\ Len(source) = 3
  /\ source[1].type = "content_block_start"
  /\ source[2] = Frame("ping", "keep-alive")
  /\ source[3].type = "content_block_stop"
  /\ Len(emitted) = 2
  /\ emitted[1].type = "content_block_start"
  /\ emitted[2].type = "content_block_stop"
  /\ received = emitted

\* C36: the output stream ends once: it is closed when the source is
\* exhausted or errored when the source fails, never both; once ended it
\* stays ended, and nothing is emitted afterwards.
StreamClosedByPump == streamState = "closed" \/ closeRequested
C36_EndNow ==
  /\ streamPc = "closed" <=> StreamClosedByPump
  /\ streamPc = "errored" <=> streamState = "errored"
  /\ streamState = "errored" <=> storedError # Absent
  /\ ~(StreamClosedByPump /\ streamState = "errored")
C36_EndsExactlyOnce ==
  /\ []C36_EndNow
  /\ [][(streamPc \in {"closed", "errored"})
          => (UNCHANGED <<streamPc, source, emitted, storedError, closeRequested>>)]_vars
  /\ [][(streamState # "readable") => streamState' = streamState]_vars

C36_Witness ==
  /\ streamPc = "closed"
  /\ streamState = "closed"
  /\ Len(emitted) = 2
  /\ consumerEnd = "done"
  /\ received = emitted

\* ------------------------------------------------------------ bedrockFetch
DefaultMaxTokens == 4096

\* init.body: text that is not JSON, the JSON text `null`, or a request
\* object {stream, max_tokens, system, ...} (Absent: the property is not
\* there; max_tokens 0: not there or 0).
MalformedBody ==
  [parses |-> FALSE, isObject |-> FALSE, stream |-> Absent, max_tokens |-> 0,
   system |-> Absent]
NullBody ==
  [parses |-> TRUE, isObject |-> FALSE, stream |-> Absent, max_tokens |-> 0,
   system |-> Absent]
RequestBodies ==
  {[parses |-> TRUE, isObject |-> TRUE, stream |-> s, max_tokens |-> t, system |-> y] :
     s \in {"true", "false", Absent}, t \in {0, 1024}, y \in {Absent, "Be brief."}}
FetchInits == {MalformedBody, NullBody} \cup RequestBodies

\* The body of the InvokeModel response: text that is not JSON, or a message
\* with or without an id and a usage object.
FetchReply(parses, id, usage) == [parses |-> parses, id |-> id, usage |-> usage]
FetchReplies ==
  {FetchReply(FALSE, Absent, NoUsage), FetchReply(TRUE, "msg_01", Usage(25, 9)),
   FetchReply(TRUE, Absent, NoUsage)}

NullTypeError == "Cannot read properties of null (reading 'stream')"

\* Lines 84-100: the Bedrock request, with the undefined properties removed.
BedrockRequest(requestBody) ==
  [anthropic_version |-> "bedrock-2023-05-31",
   max_tokens |-> IF requestBody.max_tokens # 0 THEN requestBody.max_tokens
                  ELSE DefaultMaxTokens,
   system |-> requestBody.system]

\* Lines 114-123: the error response in Anthropic format.
ErrorResponse(message) ==
  [settled |-> "fulfilled", status |-> 500,
   body |-> [type |-> "error", error |-> [type |-> "api_error", message |-> message]],
   error |-> message]

\* The promise of bedrockFetch rejects with the error.
Rejection(message) ==
  [settled |-> "rejected", status |-> 0, body |-> [type |-> Absent], error |-> message]

\* Lines 142-159: the Anthropic-format message of a parsed response body.
MessageResponse(reply, model, now) ==
  [settled |-> "fulfilled", status |-> 200,
   body |-> [type |-> "message", role |-> "assistant",
             id |-> IF Truthy(reply.id) THEN reply.id ELSE "bedrock-" \o ToString(now),
             model |-> model,
             usage |-> [input_tokens |-> IF reply.usage.defined
                                           THEN reply.usage.inputTokens ELSE 0,
                        output_tokens |-> IF reply.usage.defined
                                            THEN reply.usage.outputTokens ELSE 0]],
   error |-> Absent]

\* Lines 217-224: the Response around the stream.
StreamResponse ==
  [settled |-> "fulfilled", status |-> 200, body |-> [type |-> "stream"],
   error |-> Absent]

\* `return handleStreamingResponse(...)` and `return
\* handleNonStreamingResponse(...)` (lines 105, 108) hand the handler's
\* promise out of the try block without awaiting it: an error the handler
\* raises settles the promise of bedrockFetch and is not seen by the catch.
HandlerFailure(message) == Rejection(message)

FetchInit ==
  /\ DriverUnused
  /\ CodecUnused
  /\ StreamUnused
  /\ CostUnused
  /\ PairUnused
  /\ EnvUnused
  /\ fetchPc = "called"
  /\ fetchModel \in StreamModels \cup {DefaultBedrockModel}
  /\ fetchInit \in FetchInits
  /\ fetchCommand = NoCommand
  /\ fetchResult = NoFetchResult

\* Lines 78-109: the body is parsed and the request handed to one of the two
\* handlers, which runs up to its await of bedrockClient.send; an error of
\* these lines is caught (110-124).
FetchStart ==
  /\ fetchPc = "called"
  /\ IF ~fetchInit.parses
       THEN /\ fetchResult' = ErrorResponse(JsonSyntaxError)
            /\ fetchPc' = "settled"
            /\ UNCHANGED fetchCommand
       ELSE IF ~fetchInit.isObject
         THEN /\ fetchResult' = ErrorResponse(NullTypeError)
              /\ fetchPc' = "settled"
              /\ UNCHANGED fetchCommand
         ELSE /\ fetchCommand' =
                   [kind |-> IF fetchInit.stream = "true"
                               THEN "InvokeModelWithResponseStreamCommand"
                               ELSE "InvokeModelCommand",
                    modelId |-> fetchModel,
                    body |-> BedrockRequest(fetchInit)]
              /\ fetchPc' = "await_send"
              /\ UNCHANGED fetchResult
  /\ UNCHANGED <<fetchModel, fetchInit>>
  /\ UNCHANGED nonFetchVars

\* Lines 138-159 and 173-224: bedrockClient.send resolves.
FetchSendResolve ==
  /\ fetchPc = "await_send"
  /\ IF fetchCommand.kind = "InvokeModelCommand"
       THEN \E reply \in FetchReplies, now \in Clock :
              fetchResult' = IF reply.parses
                               THEN MessageResponse(reply, fetchModel, now)
                               ELSE HandlerFailure(JsonSyntaxError)
       ELSE fetchResult' = StreamResponse
  /\ fetchPc' = "settled"
  /\ UNCHANGED <<fetchModel, fetchInit, fetchCommand>>
  /\ UNCHANGED nonFetchVars

\* Lines 138 and 173: bedrockClient.send rejects.
FetchSendReject ==
  /\ fetchPc = "await_send"
  /\ \E message \in SendErrors : fetchResult' = HandlerFailure(message)
  /\ fetchPc' = "settled"
  /\ UNCHANGED <<fetchModel, fetchInit, fetchCommand>>
  /\ UNCHANGED nonFetchVars

FetchNext ==
  \/ FetchStart
  \/ FetchSendResolve
  \/ FetchSendReject

FetchSpec == FetchInit /\ [][FetchNext]_vars

\* C32 (as claimed): bedrockFetch never rejects; every failure while a
\* request is handled (an unparsable body, a failing send on either path)
\* comes back as a Response of status 500 holding the envelope
\* {type:'error', error:{type:'api_error', message}} with the error's message.
C32_FetchNeverRejects ==
  fetchPc = "settled" =>
    /\ fetchResult.settled = "fulfilled"
    /\ fetchResult.error # Absent =>
         /\ fetchResult.status = 500
         /\ fetchResult.body =
              [type |-> "error",
               error |-> [type |-> "api_error", message |-> fetchResult.error]]

====
